---- MODULE Spec2Model ----
(***************************************************************************)
(* django-multires: the image transformation pipeline of                   *)
(* multires/processors.py and multires/engines.py, and the records, lazy   *)
(* view and signal handlers of multires/models.py, fields.py and views.py. *)
(*                                                                         *)
(* Python values are encoded as follows.                                   *)
(*   None / absent number   the empty sequence <<>>; a number v is <<v>>   *)
(*   a colour               a sequence of four numbers, <<>> for None      *)
(*   a crop box             [kind |-> "none" | "list" | "tuple",           *)
(*                           items |-> four optional numbers]              *)
(*   a float                [n, d, e]: the rational n/d, d > 0, and the    *)
(*                          side e on which the double lies of it          *)
(*   an image               [size, mode, data]; data is the derivation of  *)
(*                          the pixel buffer from the source image         *)
(* Operators whose result depends on a float rounding error return the SET *)
(* of results the error can produce.                                       *)
(***************************************************************************)
EXTENDS Integers, Sequences, FiniteSets, TLC

VARIABLES
    recipe,     \* engine: self.recipe of the running DefaultEngine
    source,     \* engine: the image handed to the engine
    image,      \* engine: local `image` of DefaultEngine.process
    pc,         \* engine: position in DefaultEngine.process
    calls,      \* engine: processor callables invoked so far, in order
    error,      \* engine: exception propagating out of the engine ("" if none)
    saved,      \* engine: the call image.save(fid, format, **save_kwargs) of save
    p_call,     \* processor call: [processor, image, options]
    p_ret,      \* processor call: [state, exc, image, made]
    a_call,     \* get_crop_box call: [size, width, height, anchor]
    a_ret,      \* get_crop_box call: [state, exc, box]
    handle,     \* generate_multires_image_file: its `image` argument
    gen,        \* generate_multires_image_file: [pc, image, exc]
    instances,  \* concurrent calls: the processor and engine instances constructed
    frames,     \* concurrent calls: per caller [pc, self, call, image, exc]
    class_defaults, \* concurrent calls: the DEFAULTS attribute of each class
    table,      \* store: the rows of the MultiresImage table
    stored,     \* store: the files handed to Storage.save so far, as named by it
    reqs,       \* store: per lazy-view request [pc, loaded, rec, ran, exc, location]
    lookup,     \* store: the last get_multires_image call and what it returned
    owner       \* store: a source model instance and its dirty-field snapshot

vars ==
    <<recipe, source, image, pc, calls, error, saved, p_call, p_ret, a_call, a_ret,
      handle, gen, instances, frames, class_defaults,
      table, stored, reqs, lookup, owner>>
engine_vars == <<recipe, source, image, pc, calls, error, saved>>
proc_vars == <<p_call, p_ret>>
anchor_vars == <<a_call, a_ret>>
file_vars == <<handle, gen>>
call_vars == <<instances, frames, class_defaults>>
store_vars == <<table, stored, reqs, lookup, owner>>
non_engine_vars == <<proc_vars, anchor_vars, file_vars, call_vars, store_vars>>
non_proc_vars == <<engine_vars, anchor_vars, file_vars, call_vars, store_vars>>
non_anchor_vars == <<engine_vars, proc_vars, file_vars, call_vars, store_vars>>
non_file_vars == <<engine_vars, proc_vars, anchor_vars, call_vars, store_vars>>
non_call_vars == <<engine_vars, proc_vars, anchor_vars, file_vars, store_vars>>
non_store_vars == <<engine_vars, proc_vars, anchor_vars, file_vars, call_vars>>

(***************************************************************************)
(* Bounds of the model                                                     *)
(***************************************************************************)
MaxDim == 2         \* source images are 1..MaxDim pixels wide and high
MaxResizeDim == 6   \* source images handed to the resize processor alone
MaxBoxDim == 5      \* bounding boxes handed to the resize processor alone
MaxHeader == 3      \* Image.open reads 1..MaxHeader bytes of header; an open
                    \* handle starts with its cursor at 0..MaxHeader
MaxAnchorDim == 5   \* image and target sizes handed to get_crop_box alone
MaxRequests == 3    \* requests made to the lazy view of one record
MaxLookups == 2     \* calls of get_multires_image made in a row

(***************************************************************************)
(* Python helpers                                                          *)
(***************************************************************************)
None == <<>>

Some(v) == <<v>>

\* bool(x) of an optional number: None and 0 are falsy
Truthy(x) == x # <<>> /\ x[1] # 0

\* `x or y` for an optional number x
OrElse(x, y) == IF Truthy(x) THEN x[1] ELSE y

Max(a, b) == IF a >= b THEN a ELSE b

Min(a, b) == IF a <= b THEN a ELSE b

Abs(a) == IF a < 0 THEN -a ELSE a

RECURSIVE GCD(_, _)
GCD(a, b) == IF b = 0 THEN a ELSE GCD(b, a % b)

\* floor and ceiling of n/d, d > 0 (\div floors)
Floor(n, d) == n \div d

Ceil(n, d) == -((-n) \div d)

\* int(n/d): truncation toward zero, d > 0
Trunc(n, d) == IF n >= 0 THEN n \div d ELSE -((-n) \div d)

RECURSIVE IsPow2(_)
IsPow2(k) == IF k = 1 THEN TRUE ELSE IF k % 2 = 1 THEN FALSE ELSE IsPow2(k \div 2)

(***************************************************************************)
(* Python floats (IEEE doubles).  A float is [n, d, e]: the double lies     *)
(* below (e = -1), at (e = 0) or above (e = 1) the rational n/d, d > 0, by  *)
(* less than any difference between two rationals of the model.  Every      *)
(* operation is correctly rounded: on exact operands a result that is a     *)
(* dyadic rational is exact and any other result is rounded up or down; on  *)
(* an operand that carries an error the result can fall on either side.     *)
(* An arithmetic operator returns the set of floats the rounding can give.  *)
(***************************************************************************)
Dyadic(n, d) == n = 0 \/ IsPow2(d \div GCD(Abs(n), d))

FInt(k) == [n |-> k, d |-> 1, e |-> 0]

\* the floats the correctly rounded result n/d of an operation can be
Rounded(n, d, exact_operands) ==
    LET g == IF n = 0 THEN d ELSE GCD(Abs(n), d)
        signs == IF n = 0 THEN {0}
                 ELSE IF ~exact_operands THEN {-1, 0, 1}
                 ELSE IF Dyadic(n, d) THEN {0}
                 ELSE {-1, 1}
    IN  {[n |-> n \div g, d |-> d \div g, e |-> sg] : sg \in signs}

FMul(a, b) == Rounded(a.n * b.n, a.d * b.d, a.e = 0 /\ b.e = 0)

\* a / b for b > 0
FDiv(a, b) == Rounded(a.n * b.d, a.d * b.n, a.e = 0 /\ b.e = 0)

FSub(a, b) == Rounded(a.n * b.d - b.n * a.d, a.d * b.d, a.e = 0 /\ b.e = 0)

\* a < k for a float a and an integer k
FLessInt(a, k) == a.n < k * a.d \/ (a.n = k * a.d /\ a.e < 0)

\* a > k for a float a and an integer k
FGreaterInt(a, k) == a.n > k * a.d \/ (a.n = k * a.d /\ a.e > 0)

\* max(a, k) for a float a and an integer k
FMaxInt(a, k) == IF FGreaterInt(a, k) THEN a ELSE FInt(k)

\* int(a)
FTrunc(a) ==
    LET q == Trunc(a.n, a.d)
    IN  IF a.n % a.d # 0 THEN q
        ELSE IF q > 0 /\ a.e < 0 THEN q - 1
        ELSE IF q < 0 /\ a.e > 0 THEN q + 1
        ELSE q

\* int(math.ceil(a))
FCeil(a) ==
    LET q == Ceil(a.n, a.d)
    IN  IF a.n % a.d = 0 /\ a.e > 0 THEN q + 1 ELSE q

(***************************************************************************)
(* Images and the PIL primitives the processors call                       *)
(***************************************************************************)
Modes == {"RGB", "P"}

\* a decoded source image
SourceImage(w, h, mode) ==
    [size |-> <<w, h>>, mode |-> mode,
     data |-> [op |-> "source", args |-> <<>>, of |-> <<>>]]

\* placeholder where a call returns no image
NoImage ==
    [size |-> <<0, 0>>, mode |-> "",
     data |-> [op |-> "none", args |-> <<>>, of |-> <<>>]]

Derived(size, mode, op, args, im) ==
    [size |-> size, mode |-> mode,
     data |-> [op |-> op, args |-> args, of |-> <<im>>]]

\* outcome of a call: an image, or the exception it raised
Returned(im) == [exc |-> "", image |-> im]

Raised(exc) == [exc |-> exc, image |-> NoImage]

TransposeMethods ==
    {"FLIP_LEFT_RIGHT", "FLIP_TOP_BOTTOM", "ROTATE_90", "ROTATE_180", "ROTATE_270"}

\* Image.transpose(method)
PilTranspose(im, method) ==
    Derived(IF method \in {"ROTATE_90", "ROTATE_270"}
            THEN <<im.size[2], im.size[1]>>
            ELSE im.size,
            im.mode, method, <<>>, im)

\* Image.crop(box): the region box of the image; an inverted box is cut to
\* an empty region by older PIL releases and rejected by newer ones
PilCrop(im, box) ==
    IF box[3] < box[1] \/ box[4] < box[2]
    THEN {Raised("ValueError"),
          Returned(Derived(<<Max(box[3] - box[1], 0), Max(box[4] - box[2], 0)>>,
                           im.mode, "crop", box, im))}
    ELSE {Returned(Derived(<<box[3] - box[1], box[4] - box[2]>>,
                           im.mode, "crop", box, im))}

\* Image.resize(size, ANTIALIAS): resampled to size
PilResize(im, size) ==
    IF size[1] <= 0 \/ size[2] <= 0
    THEN Raised("ValueError")
    ELSE Returned(Derived(size, im.mode, "resize", <<>>, im))

\* Image.convert(mode)
PilConvert(im, mode) == Derived(im.size, mode, "convert", <<>>, im)

\* sin and cos of the angles of the model, in units of 1/TrigScale
TrigScale == 10000

SinS(deg) ==
    CASE deg = 30 -> 5000
      [] deg = -30 -> -5000
      [] deg = 150 -> 5000
      [] deg = -150 -> -5000

CosS(deg) ==
    CASE deg = 30 -> 8660
      [] deg = -30 -> 8660
      [] deg = 150 -> -8660
      [] deg = -150 -> -8660

SetMax(S) == CHOOSE m \in S : \A k \in S : k <= m

SetMin(S) == CHOOSE m \in S : \A k \in S : m <= k

\* size of the canvas Image.rotate(degrees, expand=True) allocates: the
\* bounding box of the four corners turned by -degrees
PilRotatedSize(size, deg) ==
    LET w == size[1]
        h == size[2]
        c == CosS(-deg)
        s == SinS(-deg)
        corners == {<<0, 0>>, <<w, 0>>, <<w, h>>, <<0, h>>}
        xx == {c * p[1] + s * p[2] : p \in corners}
        yy == {c * p[2] - s * p[1] : p \in corners}
    IN  <<Ceil(SetMax(xx), TrigScale) - Floor(SetMin(xx), TrigScale),
          Ceil(SetMax(yy), TrigScale) - Floor(SetMin(yy), TrigScale)>>

\* Image.rotate(degrees, BICUBIC, expand)
PilRotate(im, deg, expand) ==
    Derived(IF expand THEN PilRotatedSize(im.size, deg) ELSE im.size,
            im.mode, "rotate", <<deg, IF expand THEN 1 ELSE 0>>, im)

\* Image.composite(rotated, Image.new('RGBA', rotated.size, color), rotated)
PilCompositeOver(rotated, color) ==
    Derived(rotated.size, "RGBA", "composite", color, rotated)

\* the pixel of im at (x, y), traced back through the exact primitives
\* (transpose, crop) to the image whose buffer it is read from
RECURSIVE PixelAt(_, _, _)
PixelAt(im, x, y) ==
    LET op == im.data.op
        of == im.data.of[1]
        w == of.size[1]
        h == of.size[2]
    IN  CASE op = "FLIP_LEFT_RIGHT" -> PixelAt(of, w - 1 - x, y)
          [] op = "FLIP_TOP_BOTTOM" -> PixelAt(of, x, h - 1 - y)
          [] op = "ROTATE_90" -> PixelAt(of, w - 1 - y, x)
          [] op = "ROTATE_180" -> PixelAt(of, w - 1 - x, h - 1 - y)
          [] op = "ROTATE_270" -> PixelAt(of, y, h - 1 - x)
          [] op = "crop" ->
                LET sx == x + im.data.args[1]
                    sy == y + im.data.args[2]
                IN  IF sx \in 0..(w - 1) /\ sy \in 0..(h - 1)
                    THEN PixelAt(of, sx, sy)
                    ELSE [at |-> <<-1, -1>>, of |-> im]
          [] OTHER -> [at |-> <<x, y>>, of |-> im]

\* same size, same mode and the same pixel everywhere
SamePixels(a, b) ==
    /\ a.size = b.size
    /\ a.mode = b.mode
    /\ \A x \in 0..(a.size[1] - 1), y \in 0..(a.size[2] - 1) :
          PixelAt(a, x, y) = PixelAt(b, x, y)

(***************************************************************************)
(* multires/processors.py                                                  *)
(***************************************************************************)
\* outcome of a processor call: the exception raised ("" for none), the
\* image returned, and the images the PIL primitives made on the way
Outcome(exc, im, made) == [exc |-> exc, image |-> im, made |-> made]

\* AttrDict(self.DEFAULTS) updated with the keyword arguments of the call
Merge(defaults, options) ==
    [k \in DOMAIN defaults \cup DOMAIN options |->
        IF k \in DOMAIN options THEN options[k] ELSE defaults[k]]

\* BaseProcessor.prep: the processor instance after prep
BasePrep(defaults, im, options) ==
    [options |-> Merge(defaults, options),
     input_size |-> im.size,
     input_width |-> im.size[1],
     input_height |-> im.size[2]]

AnchorNames == {"center", "crop", "fill", "top", "left", "right", "bottom"}

\* the centred coordinate rounded down instead of towards zero
CentredCoordinate_Floor(center, extent) == Floor(2 * center - extent, 2)

\* int(center - extent * 0.5): halves are exact in a double
CentredCoordinate(center, extent) == Trunc(2 * center - extent, 2)

\* the requested extent used as it is
ClampExtent_Off(extent, dimension) == extent

\* if width > w: width = w
ClampExtent(extent, dimension) == IF extent > dimension THEN dimension ELSE extent

\* AnchorCropProcessorMixin.get_crop_box(image, width, height, anchor)
AnchorCropBox(size, width, height, anchor) ==
    LET w == size[1]
        h == size[2]
        cw == ClampExtent(width, w)
        ch == ClampExtent(height, h)
        center == <<w \div 2, h \div 2>>
        cx == CentredCoordinate(center[1], cw)
        cy == CentredCoordinate(center[2], ch)
        x1 == CASE anchor \in {"center", "crop", "fill"} -> cx
                [] anchor = "top" -> cx
                [] anchor = "left" -> 0
                [] anchor = "right" -> w - cw
                [] anchor = "bottom" -> cx
                [] OTHER -> 0
        y1 == CASE anchor \in {"center", "crop", "fill"} -> cy
                [] anchor = "top" -> 0
                [] anchor = "left" -> cy
                [] anchor = "right" -> cy
                [] anchor = "bottom" -> h - ch
                [] OTHER -> 0
    IN  IF anchor \notin AnchorNames
        THEN [exc |-> "ValueError", box |-> <<>>]
        ELSE [exc |-> "", box |-> <<x1, y1, x1 + cw, y1 + ch>>]

CropDefaults == [crop_box |-> [kind |-> "none", items |-> <<>>], crop_percent |-> TRUE]

\* the floats inset / 100. * dimension can be
PercentPixels(inset, dimension) ==
    UNION {FMul(q, FInt(dimension)) : q \in FDiv(FInt(inset), FInt(100))}

\* the values int(inset / 100. * dimension) can take
PercentOf(inset, dimension) ==
    {FTrunc(x) : x \in PercentPixels(inset, dimension)}

\* the values int(dimension - inset / 100. * dimension) can take
PercentFrom(inset, dimension) ==
    {FTrunc(y) :
        y \in UNION {FSub(FInt(dimension), x) : x \in PercentPixels(inset, dimension)}}

\* CropProcessor.get_crop_box that takes the insets for corner coordinates
CropGetCropBox_Absolute(self) ==
    LET given == self.options.crop_box
        items == IF given.kind # "none" THEN given.items ELSE <<None, None, None, None>>
        v(i) == IF items[i] = None THEN 0 ELSE items[i][1]
    IN  {[exc |-> "", box |-> <<v(1), v(2), v(3), v(4)>>]}

\* CropProcessor.get_crop_box: the boxes it can return, or the exception
CropGetCropBox(self) ==
    LET given == self.options.crop_box
        items == IF given.kind # "none" THEN given.items ELSE <<None, None, None, None>>
        v(i) == IF items[i] = None THEN 0 ELSE items[i][1]
        W == self.input_width
        H == self.input_height
    IN  IF given.kind = "tuple" /\ \E i \in 1..4 : items[i] = None
        THEN {[exc |-> "TypeError", box |-> <<>>]}
        ELSE IF self.options.crop_percent
        THEN {[exc |-> "", box |-> <<a, b, c, d>>] :
                a \in PercentOf(v(1), W), b \in PercentOf(v(2), H),
                c \in PercentFrom(v(3), W), d \in PercentFrom(v(4), H)}
        ELSE {[exc |-> "", box |-> <<v(1), v(2), W - v(3), H - v(4)>>]}

\* CropProcessor.process after prep
CropProcess(self, im) ==
    UNION {IF b.exc # ""
           THEN {Outcome(b.exc, NoImage, <<>>)}
           ELSE {Outcome(r.exc, r.image, IF r.exc = "" THEN <<r.image>> ELSE <<>>) :
                    r \in PilCrop(im, b.box)} :
           b \in CropGetCropBox(self)}

\* crop_processor(image, **options)
crop_processor(im, options) == CropProcess(BasePrep(CropDefaults, im, options), im)

FlipDefaults == [flip |-> ""]

\* FlipProcessor.process after prep
FlipProcess(self, im) ==
    IF self.options.flip = ""
    THEN {Outcome("", im, <<>>)}
    ELSE LET method == IF self.options.flip \in {"x", "h"}
                       THEN "FLIP_LEFT_RIGHT"
                       ELSE "FLIP_TOP_BOTTOM"
             out == PilTranspose(im, method)
         IN  {Outcome("", out, <<out>>)}

\* flip_processor(image, **options)
flip_processor(im, options) == FlipProcess(BasePrep(FlipDefaults, im, options), im)

ResizeDefaults == [width |-> None, height |-> None, fit |-> "fit", upscale |-> FALSE]

\* prep that takes only an absent box dimension from the input
ResizePrep_ZeroKept(im, options) ==
    LET self == BasePrep(ResizeDefaults, im, options)
    IN  [self EXCEPT !.options.width = IF self.options.width = None
                                       THEN self.input_width
                                       ELSE self.options.width[1],
                     !.options.height = IF self.options.height = None
                                        THEN self.input_height
                                        ELSE self.options.height[1]]

\* prep that takes an absent box dimension from the input's other dimension
ResizePrep_Swapped(im, options) ==
    LET self == BasePrep(ResizeDefaults, im, options)
    IN  [self EXCEPT !.options.width = OrElse(self.options.width, self.input_height),
                     !.options.height = OrElse(self.options.height, self.input_width)]

\* ResizeProcessor.prep: absent (or zero) box dimensions become the input's
ResizePrep(im, options) ==
    LET self == BasePrep(ResizeDefaults, im, options)
    IN  [self EXCEPT !.options.width = OrElse(self.options.width, self.input_width),
                     !.options.height = OrElse(self.options.height, self.input_height)]

\* one running evaluation of get_scaled_size: its locals width and height
Scaling(width, height, exc) == [width |-> width, height |-> height, exc |-> exc]

\* if width < box_width: width = box_width; height = width / aspect_ratio
EnlargeToWidth(s, bw, ar) ==
    IF s.exc # "" \/ ~FLessInt(s.width, bw) THEN {s}
    ELSE IF ar.n = 0 THEN {Scaling(s.width, s.height, "ZeroDivisionError")}
    ELSE {Scaling(FInt(bw), hgt, "") : hgt \in FDiv(FInt(bw), ar)}

\* the height enlargement step left out
EnlargeToHeight_Skip(s, bh, ar) == {s}

\* if height < box_height: height = box_height; width = height * aspect_ratio
EnlargeToHeight(s, bh, ar) ==
    IF s.exc # "" \/ ~FLessInt(s.height, bh) THEN {s}
    ELSE {Scaling(wid, FInt(bh), "") : wid \in FMul(FInt(bh), ar)}

\* both enlargement steps in sequence (lines 290-295 and 307-312)
Enlarge(S, bw, bh, ar) ==
    UNION {EnlargeToHeight(t, bh, ar) :
           t \in UNION {EnlargeToWidth(s, bw, ar) : s \in S}}

\* the floats a * k / b can be, for floats a and b > 0 and an integer k
MulDiv(a, k, b) == UNION {FDiv(p, b) : p \in FMul(a, FInt(k))}

\* if width > box_width:
\*     height = int(max(height * box_width / width, 1)); width = int(box_width)
ShrinkToWidth(s, bw) ==
    IF s.exc # "" \/ ~FGreaterInt(s.width, bw) THEN {s}
    ELSE {Scaling(FInt(bw), FInt(FTrunc(FMaxInt(q, 1))), "") :
             q \in MulDiv(s.height, bw, s.width)}

\* the height shrink step left out
ShrinkToHeight_Skip(s, bh) == {s}

\* if height > box_height:
\*     width = int(max(width * box_height / height, 1)); height = int(box_height)
ShrinkToHeight(s, bh) ==
    IF s.exc # "" \/ ~FGreaterInt(s.height, bh) THEN {s}
    ELSE {Scaling(FInt(FTrunc(FMaxInt(q, 1))), FInt(bh), "") :
             q \in MulDiv(s.width, bh, s.height)}

\* the fit into the bounding box (lines 297-303)
Shrink(S, bw, bh) ==
    UNION {ShrinkToHeight(t, bh) : t \in UNION {ShrinkToWidth(s, bw) : s \in S}}

\* get_scaled_size with aspect_ratio computed
ScaledSizes(self, ar) ==
    LET bw == self.options.width
        bh == self.options.height
        S0 == {Scaling(FInt(self.input_width), FInt(self.input_height), "")}
        S1 == IF self.options.upscale THEN Enlarge(S0, bw, bh, ar) ELSE S0
        S2 == Shrink(S1, bw, bh)
        S3 == IF self.options.fit # "fit" THEN Enlarge(S2, bw, bh, ar) ELSE S2
    IN  {IF s.exc # ""
         THEN [exc |-> s.exc, size |-> <<>>]
         ELSE [exc |-> "", size |-> <<FCeil(s.width), FCeil(s.height)>>] :
         s \in S3}

\* ResizeProcessor.get_scaled_size: the sizes it can return, or the exception
get_scaled_size(self) ==
    IF self.input_height = 0
    THEN {[exc |-> "ZeroDivisionError", size |-> <<>>]}
    ELSE UNION {ScaledSizes(self, ar) :
                ar \in FDiv(FInt(self.input_width), FInt(self.input_height))}

\* process that returns the resized image without the anchor crop
ResizeCrop_Uncropped(self, resized) == {Outcome("", resized, <<resized>>)}

\* the rest of ResizeProcessor.process once the image is resized
ResizeCrop(self, resized) ==
    IF self.options.fit = "fit"
    THEN {Outcome("", resized, <<resized>>)}
    ELSE LET b == AnchorCropBox(resized.size, self.options.width,
                                self.options.height, self.options.fit)
         IN  IF b.exc # ""
             THEN {Outcome(b.exc, NoImage, <<resized>>)}
             ELSE {Outcome(r.exc, r.image,
                           IF r.exc = "" THEN <<resized, r.image>> ELSE <<resized>>) :
                      r \in PilCrop(resized, b.box)}

\* ResizeProcessor.process after prep
ResizeProcess(self, im) ==
    UNION {IF g.exc # ""
           THEN {Outcome(g.exc, NoImage, <<>>)}
           ELSE LET r == PilResize(im, g.size)
                IN  IF r.exc # ""
                    THEN {Outcome(r.exc, NoImage, <<>>)}
                    ELSE ResizeCrop(self, r.image) :
           g \in get_scaled_size(self)}

\* resize_processor(image, **options)
resize_processor(im, options) == ResizeProcess(ResizePrep(im, options), im)

RotateDefaults ==
    [degrees |-> 0, extend |-> TRUE, color |-> None, preserve_transparency |-> TRUE]

\* RotateProcessor.prep
RotatePrep(defaults, im, options) ==
    LET self == BasePrep(defaults, im, options)
    IN  [self EXCEPT !.options =
            Merge(self.options, [transposable |-> self.options.degrees % 90 = 0])]

\* RotateProcessor.process after prep
RotateProcess(self, im) ==
    LET o == self.options
    IN  IF o.transposable
        THEN IF o.degrees = 0
             THEN Outcome("", im, <<>>)
             ELSE IF o.degrees \notin {90, 180, 270}
             THEN Outcome("AttributeError", NoImage, <<>>)
             ELSE LET method == CASE o.degrees = 90 -> "ROTATE_90"
                                  [] o.degrees = 180 -> "ROTATE_180"
                                  [] o.degrees = 270 -> "ROTATE_270"
                      out == PilTranspose(im, method)
                  IN  Outcome("", out, <<out>>)
        ELSE IF o.color # None
        THEN LET rgba == PilConvert(im, "RGBA")
                 rotated == PilRotate(rgba, o.degrees, o.extend)
                 filled == PilCompositeOver(rotated, o.color)
             IN  IF ~o.preserve_transparency \/ o.color[4] = 255
                 THEN LET back == PilConvert(filled, im.mode)
                      IN  Outcome("", back, <<rgba, rotated, filled, back>>)
                 ELSE Outcome("", filled, <<rgba, rotated, filled>>)
        ELSE LET rotated == PilRotate(im, o.degrees, o.extend)
             IN  Outcome("", rotated, <<rotated>>)

\* rotate_processor(image, **options)
rotate_processor(im, options) == {RotateProcess(RotatePrep(RotateDefaults, im, options), im)}

RotateCropDefaults == Merge(RotateDefaults, [crop_mode |-> "aspect_ratio"])

\* RotateCropProcessor.prep that forgets to drop the colour
RotateCropPrep_KeepColor(im, options) ==
    LET self == RotatePrep(RotateCropDefaults, im, options)
    IN  [self EXCEPT !.options.extend = TRUE]

\* RotateCropProcessor.prep
RotateCropPrep(im, options) ==
    LET self == RotatePrep(RotateCropDefaults, im, options)
    IN  [self EXCEPT !.options.extend = TRUE, !.options.color = None]

\* int(n/d) for d # 0
TruncQ(n, d) == IF d < 0 THEN Trunc(-n, -d) ELSE Trunc(n, d)

\* RotateCropProcessor.get_rotated_rect_aspect_ratio
get_rotated_rect_aspect_ratio(self, rotated) ==
    LET iw == self.input_width
        ih == self.input_height
        rw == rotated.size[1]
        rh == rotated.size[2]
        sin == SinS(Abs(self.options.degrees))
        cos == CosS(Abs(self.options.degrees))
        \* total_height = tn / td
        tn == IF iw < ih THEN iw * rh ELSE ih
        td == IF iw < ih THEN rw ELSE 1
        \* aspect_ratio * sin(angle) + cos(angle) = den / (ih * TrigScale)
        den == iw * sin + ih * cos
    IN  <<TruncQ(tn * iw * TrigScale, td * den), TruncQ(tn * ih * TrigScale, td * den)>>

\* RotateCropProcessor.get_rotated_rect_max_area
get_rotated_rect_max_area(self, rotated) ==
    LET iw == self.input_width
        ih == self.input_height
        width_is_longer == iw >= ih
        side_long == IF width_is_longer THEN iw ELSE ih
        side_short == IF width_is_longer THEN ih ELSE iw
        sin_a == Abs(SinS(self.options.degrees))
        cos_a == Abs(CosS(self.options.degrees))
        cos_2a == cos_a * cos_a - sin_a * sin_a
    IN  IF iw <= 0 \/ ih <= 0
        THEN <<0, 0>>
        ELSE IF side_short * TrigScale * TrigScale <= 2 * sin_a * cos_a * side_long
        THEN LET by_sin == TruncQ(side_short * TrigScale, 2 * sin_a)
                 by_cos == TruncQ(side_short * TrigScale, 2 * cos_a)
             IN  IF width_is_longer THEN <<by_sin, by_cos>> ELSE <<by_cos, by_sin>>
        ELSE <<TruncQ((iw * cos_a - ih * sin_a) * TrigScale, cos_2a),
               TruncQ((ih * cos_a - iw * sin_a) * TrigScale, cos_2a)>>

CropModes == {"aspect_ratio", "max_area"}

\* RotateCropProcessor.process after prep
RotateCropProcess(self, im) ==
    LET r == RotateProcess(self, im)
    IN  IF r.exc # "" \/ self.options.transposable
        THEN {r}
        ELSE IF self.options.crop_mode \notin CropModes
        THEN {Outcome("AttributeError", NoImage, r.made)}
        ELSE LET rotated == r.image
                 rect == IF self.options.crop_mode = "aspect_ratio"
                         THEN get_rotated_rect_aspect_ratio(self, rotated)
                         ELSE get_rotated_rect_max_area(self, rotated)
                 b == AnchorCropBox(rotated.size, rect[1], rect[2], "center")
             IN  {Outcome(c.exc, c.image,
                          IF c.exc = "" THEN Append(r.made, c.image) ELSE r.made) :
                     c \in PilCrop(rotated, b.box)}

\* rotate_crop_processor(image, **options)
rotate_crop_processor(im, options) == RotateCropProcess(RotateCropPrep(im, options), im)

(***************************************************************************)
(* multires/engines.py: DefaultEngine.process                              *)
(***************************************************************************)
\* what one stage of process does: the exception or the image it leaves in
\* `image`, and the processor callable it invoked (none when skipped)
StageResult(name, outs) ==
    {[exc |-> o.exc, image |-> o.image, called |-> <<name>>] : o \in outs}

Skipped(im) == {[exc |-> "", image |-> im, called |-> <<>>]}

\* lines 57-61
FlipStage(r, im) ==
    IF r.flip # ""
    THEN StageResult("flip_processor", flip_processor(im, [flip |-> r.flip]))
    ELSE Skipped(im)

\* lines 63-80
RotateStage(r, im) ==
    IF Truthy(r.rotate)
    THEN LET rotate_kwargs == [degrees |-> r.rotate[1],
                               color |-> r.rotate_color,
                               preserve_transparency |-> FALSE]
         IN  IF r.rotate_crop = ""
             THEN StageResult("rotate_processor", rotate_processor(im, rotate_kwargs))
             ELSE StageResult("rotate_crop_processor",
                              rotate_crop_processor(im,
                                  Merge(rotate_kwargs, [crop_mode |-> r.rotate_crop])))
    ELSE Skipped(im)

\* lines 82-86
CropStage(r, im) ==
    IF r.crop.kind # "none"
    THEN StageResult("crop_processor", crop_processor(im, [crop_box |-> r.crop]))
    ELSE Skipped(im)

\* lines 88-95
ResizeStage(r, im) ==
    IF Truthy(r.width) \/ Truthy(r.height)
    THEN StageResult("resize_processor",
             resize_processor(im, [width |-> Some(OrElse(r.width, im.size[1])),
                                   height |-> Some(OrElse(r.height, im.size[2])),
                                   fit |-> r.fit,
                                   upscale |-> r.upscale]))
    ELSE Skipped(im)

\* process with the resize statement moved before the crop statement
StageAfter_ResizeFirst(stage) ==
    CASE stage = "flip" -> "rotate"
      [] stage = "rotate" -> "resize"
      [] stage = "resize" -> "crop"
      [] stage = "crop" -> "done"

\* the statement of process that follows the given one
StageAfter(stage) ==
    CASE stage = "flip" -> "rotate"
      [] stage = "rotate" -> "crop"
      [] stage = "crop" -> "resize"
      [] stage = "resize" -> "done"

StageOutcomes(stage, r, im) ==
    CASE stage = "flip" -> FlipStage(r, im)
      [] stage = "rotate" -> RotateStage(r, im)
      [] stage = "crop" -> CropStage(r, im)
      [] stage = "resize" -> ResizeStage(r, im)

\* DefaultEngine.process from the given statement on: the results it can
\* end with, [exc, image]
RECURSIVE ProcessFrom(_, _, _)
ProcessFrom(stage, r, im) ==
    IF stage = "done"
    THEN {[exc |-> "", image |-> im]}
    ELSE UNION {IF o.exc # ""
                THEN {[exc |-> o.exc, image |-> NoImage]}
                ELSE ProcessFrom(StageAfter(stage), r, o.image) :
                o \in StageOutcomes(stage, r, im)}

\* DefaultEngine.process(image) with self.recipe = r
EngineProcess(r, im) == ProcessFrom("flip", r, im)

(***************************************************************************)
(* multires/engines.py: DefaultEngine.save                                 *)
(***************************************************************************)
\* no image.save call made
NotSaved ==
    [state |-> "none", image |-> NoImage, format |-> "", quality |-> None, name |-> ""]

\* save that names the file after the file type itself
FileTypeExt_Raw(file_type) == file_type

\* FILE_TYPE_EXT_MAPPING.get(file_type, file_type)
FileTypeExt(file_type) == IF file_type = "jpeg" THEN "jpg" ELSE file_type

\* the "normalize mode" block of save
NormalizeMode(r, im) ==
    IF r.file_type = "jpeg" /\ im.mode \notin {"RGB", "RGBA"}
    THEN PilConvert(im, "RGB")
    ELSE im

\* Image.save(fid, format, **save_kwargs): the exceptions it can raise ("" for
\* none); the JPEG encoder of a recent PIL release rejects a mode it cannot
\* write, and an encoder may reject an image without pixels
PilSave(im, format) ==
    IF (format = "jpeg" /\ im.mode \notin {"RGB", "L", "CMYK"})
       \/ im.size[1] <= 0 \/ im.size[2] <= 0
    THEN {"", "OSError"}
    ELSE {""}

\* DefaultEngine.save(image) with self.recipe = r: the image.save call it
\* makes and the exception that call raises
EngineSave(r, im) ==
    LET handed == NormalizeMode(r, im)
        call == [state |-> "saved",
                 image |-> handed,
                 format |-> r.file_type,
                 quality |-> IF r.file_type = "jpeg" /\ Truthy(r.quality)
                             THEN r.quality ELSE None,
                 name |-> "." \o FileTypeExt(r.file_type)]
    IN  {[exc |-> e, call |-> call] : e \in PilSave(handed, r.file_type)}

(***************************************************************************)
(* Inputs of the model                                                     *)
(***************************************************************************)
Opaque == <<255, 0, 0, 255>>

Transparent == <<0, 0, 0, 0>>

NoCrop == [kind |-> "none", items |-> <<>>]

CropList(a, b, c, d) == [kind |-> "list", items |-> <<a, b, c, d>>]

\* recipes: values of the MultiresRecipe fields that reach each branch
Recipes ==
    [flip : {"", "x", "y"},
     rotate : {None, Some(0), Some(90), Some(30), Some(-90)},
     rotate_crop : {"", "aspect_ratio", "max_area"},
     rotate_color : {None, Opaque},
     crop : {NoCrop, CropList(Some(50), Some(0), Some(0), Some(0))},
     width : {None, Some(1)},
     height : {None, Some(2)},
     fit : {"fit", "center"},
     upscale : BOOLEAN,
     file_type : {"jpeg"},
     quality : {None}]

EngineSources == {SourceImage(w, h, "RGB") : w \in 1..MaxDim, h \in 1..MaxDim}

ProcImages == {SourceImage(w, h, m) : w \in 1..MaxDim, h \in 1..MaxDim, m \in Modes}

Call(processor, im, options) ==
    [processor |-> processor, image |-> im, options |-> options]

FlipCalls ==
    {Call("flip_processor", im, [flip |-> f]) :
        im \in ProcImages, f \in {"", "x", "h", "y"}}

RotateOptions ==
    [degrees : {-90, -30, 0, 30, 90, 150, 180, 270, 360},
     extend : BOOLEAN,
     color : {None, Opaque, Transparent},
     preserve_transparency : BOOLEAN]

RotateCalls == {Call("rotate_processor", im, o) : im \in ProcImages, o \in RotateOptions}

RotateCropOptions ==
    [degrees : {-90, -30, 0, 30, 90, 150, 180, 270, 360},
     extend : BOOLEAN,
     color : {None, Opaque},
     crop_mode : {"aspect_ratio", "max_area", "min_area"}]

RotateCropCalls ==
    {Call("rotate_crop_processor", im, o) : im \in ProcImages, o \in RotateCropOptions}

\* insets given in percent, insets given in pixels
PercentInsets == {None, Some(0), Some(50)}

PixelInsets == {None, Some(0), Some(1)}

CropBoxes(insets) ==
    {NoCrop} \cup
    {[kind |-> k, items |-> <<a, b, c, d>>] :
        k \in {"list", "tuple"}, a \in insets, b \in insets, c \in insets, d \in insets}

CropCalls ==
    {Call("crop_processor", im, [crop_box |-> b, crop_percent |-> TRUE]) :
        im \in ProcImages, b \in CropBoxes(PercentInsets)}
    \cup
    {Call("crop_processor", im, [crop_box |-> b, crop_percent |-> FALSE]) :
        im \in ProcImages, b \in CropBoxes(PixelInsets)}

FitModes == {"fit"} \cup AnchorNames

ResizeCalls ==
    {Call("resize_processor", SourceImage(w, h, "RGB"),
          [width |-> bw, height |-> bh, fit |-> f, upscale |-> u]) :
        w \in 1..MaxResizeDim, h \in 1..MaxResizeDim,
        bw \in {None} \cup {Some(k) : k \in 0..MaxBoxDim},
        bh \in {None} \cup {Some(k) : k \in 0..MaxBoxDim},
        f \in FitModes \cup {"middle"}, u \in BOOLEAN}

AnchorCall(size, width, height, anchor) ==
    [size |-> size, width |-> width, height |-> height, anchor |-> anchor]

AnchorCalls ==
    {AnchorCall(<<w, h>>, tw, th, a) :
        w \in 1..MaxAnchorDim, h \in 1..MaxAnchorDim,
        tw \in 1..(MaxAnchorDim + 1), th \in 1..(MaxAnchorDim + 1),
        a \in AnchorNames \cup {"middle"}}
    \cup {AnchorCall(<<100, 100>>, 40, 40, a) : a \in AnchorNames}

(***************************************************************************)
(* multires/files.py: generate_multires_image_file                         *)
(***************************************************************************)
\* the `image` argument: a path (kind "path"), or an ImageFieldFile (kind
\* "field") that is closed or open with its read cursor at pos; content is
\* the image the file holds
Handle(kind, closed, pos, content) ==
    [kind |-> kind, closed |-> closed, pos |-> pos, content |-> content]

NoHandle == Handle("", TRUE, 0, NoImage)

\* the function's position, the PIL image bound to `image` once decoded and
\* the exception the function raised
Gen(at, im, exc) == [pc |-> at, image |-> im, exc |-> exc]

NoGen == Gen("idle", NoImage, "")

\* Image.open(fp) reads the header of the file: it leaves the cursor of fp
\* behind the bytes it read
HeaderReads == 1..MaxHeader

\* engine(image, recipe): the exceptions the call can raise ("" for none)
EngineCall(r, im) ==
    UNION {IF o.exc # "" THEN {o.exc} ELSE {s.exc : s \in EngineSave(r, o.image)} :
           o \in EngineProcess(r, im)}

(***************************************************************************)
(* as_callable: BaseProcessor.as_callable and BaseEngine.as_callable       *)
(***************************************************************************)
\* the DEFAULTS class attribute of the processor classes
ClassDefaults ==
    [crop_processor |-> CropDefaults, rotate_processor |-> RotateDefaults]

\* an instance as cls() leaves it: no options, no input size, no recipe
FreshInstance == <<>>

\* a wrapper that calls one instance constructed ahead of the calls
Allocate_Shared(heap) ==
    IF heap = <<>>
    THEN [heap |-> <<FreshInstance>>, self |-> 1]
    ELSE [heap |-> heap, self |-> 1]

\* cls() in the wrapper of as_callable: a new instance for this call
Allocate(heap) == [heap |-> Append(heap, FreshInstance), self |-> Len(heap) + 1]

\* the attributes the call sets on its instance before processing: prep of
\* the processor, self.recipe = recipe of the engine
PrepFor(call, defaults) ==
    CASE call.processor = "crop_processor" ->
            BasePrep(defaults.crop_processor, call.image, call.options)
      [] call.processor = "rotate_processor" ->
            RotatePrep(defaults.rotate_processor, call.image, call.options)
      [] call.processor = "engine" -> [recipe |-> call.options]

\* self.process(image) of a processor, full_process(image) of the engine, on
\* the attributes found on the instance
ProcessFor(call, self) ==
    CASE call.processor = "crop_processor" ->
            {[exc |-> o.exc, image |-> o.image] : o \in CropProcess(self, call.image)}
      [] call.processor = "rotate_processor" ->
            {[exc |-> o.exc, image |-> o.image] : o \in {RotateProcess(self, call.image)}}
      [] call.processor = "engine" -> EngineProcess(self.recipe, call.image)

(***************************************************************************)
(* multires/models.py, multires/fields.py, multires/views.py: the records  *)
(* of derivatives, their files and the lazy view                           *)
(*   a file field value  [state, uuid, ext, serial]: empty, a generated    *)
(*                       ContentFile not yet committed, or a file named by *)
(*                       the storage                                       *)
(*   a MultiresImage     [id, source, recipe, processed, image]; id and    *)
(*                       recipe are optional numbers, source a file name   *)
(***************************************************************************)
\* the MultiresRecipe rows, by primary key: a quarter turn, a turn by -90
\* degrees, and a recipe of another namespace
RecipeRows ==
    LET plain == [flip |-> "", rotate |-> None, rotate_crop |-> "", rotate_color |-> None,
                  crop |-> NoCrop, width |-> Some(1), height |-> None, fit |-> "fit",
                  upscale |-> FALSE, file_type |-> "jpeg", quality |-> None]
    IN  <<[namespace |-> "photos", automatic |-> TRUE,
           fields |-> [plain EXCEPT !.rotate = Some(90)]],
          [namespace |-> "photos", automatic |-> FALSE,
           fields |-> [plain EXCEPT !.rotate = Some(-90)]],
          [namespace |-> "icons", automatic |-> TRUE,
           fields |-> [plain EXCEPT !.file_type = "png"]]>>

\* the source files in the storage, by name, as Image.open decodes them
SourceFiles == [a |-> SourceImage(2, 1, "RGB"), b |-> SourceImage(1, 2, "RGB")]

NoFile == [state |-> "none", uuid |-> 0, ext |-> "", serial |-> 0]

\* the ContentFile the engine returns, named '.' + extension
GeneratedFile(ext) == [state |-> "generated", uuid |-> 0, ext |-> ext, serial |-> 0]

\* upload_to/<uuid>.<ext>, made unique by the storage when the name is taken
StoredFile(uuid, ext, serial) ==
    [state |-> "stored", uuid |-> uuid, ext |-> ext, serial |-> serial]

Record(id, name, recipe_id, processed, file) ==
    [id |-> id, source |-> name, recipe |-> recipe_id, processed |-> processed,
     image |-> file]

NoRecord == Record(None, "", None, FALSE, NoFile)

\* engine(image, recipe) for every recipe row and source file
EngineOutcomes ==
    [k \in DOMAIN RecipeRows |->
        [name \in DOMAIN SourceFiles |->
            EngineCall(RecipeRows[k].fields, SourceFiles[name])]]

\* generate_multires_image_file(self.source, self.recipe): the exceptions
\* the engine call can raise ("" for none)
GenerateFile(rec) == EngineOutcomes[rec.recipe[1]][rec.source]

\* Storage.save(name, content) under the name random_upload_to builds: the
\* name itself, or its next free variant
AvailableName(files, uuid, ext) ==
    StoredFile(uuid, ext,
               Cardinality({i \in DOMAIN files :
                               files[i].uuid = uuid /\ files[i].ext = ext}))

\* the primary key the database assigns to an inserted row
FreshId(rows) == 1 + Cardinality(rows)

\* Model.save() of a MultiresImage: the file field commits a file not yet
\* committed to the storage; then the row is inserted, or updated by primary
\* key; unique_together (source, recipe) is enforced by the database
SaveRecord(rows, files, rec) ==
    LET id == IF rec.id = None THEN FreshId(rows) ELSE rec.id[1]
        file == IF rec.image.state = "generated"
                THEN AvailableName(files, id, rec.image.ext)
                ELSE rec.image
        files2 == IF rec.image.state = "generated" THEN Append(files, file) ELSE files
        others == {row \in rows : row.id # Some(id)}
    IN  IF \E row \in others : row.source = rec.source /\ row.recipe = rec.recipe
        THEN [exc |-> "IntegrityError", table |-> rows, stored |-> files2,
              rec |-> [rec EXCEPT !.image = file]]
        ELSE LET rec2 == [rec EXCEPT !.id = Some(id), !.image = file]
             IN  [exc |-> "", table |-> others \cup {rec2}, stored |-> files2,
                  rec |-> rec2]

\* the test `not self.recipe_id and not self.recipe or not self.source` of
\* process: ValueError is raised when it holds; reading self.recipe of an
\* image without recipe_id raises DoesNotExist unless a recipe is cached
MissingErrors(rec) ==
    IF rec.recipe = None THEN {"ValueError", "DoesNotExist"} ELSE {"ValueError"}

\* process that marks the image processed before the pipeline has run
Process_MarkFirst(rows, files, rec, save) ==
    IF rec.recipe = None \/ rec.source = ""
    THEN {[exc |-> e, table |-> rows, stored |-> files, rec |-> rec, ran |-> FALSE] :
          e \in MissingErrors(rec)}
    ELSE LET marked == [rec EXCEPT !.processed = TRUE]
         IN  {IF e # ""
              THEN [exc |-> e, table |-> rows, stored |-> files, rec |-> marked,
                    ran |-> TRUE]
              ELSE LET made == [marked EXCEPT
                                   !.image = GeneratedFile(
                                       FileTypeExt(RecipeRows[rec.recipe[1]].fields.file_type))]
                   IN  IF save
                       THEN LET s == SaveRecord(rows, files, made)
                            IN  [exc |-> s.exc, table |-> s.table, stored |-> s.stored,
                                 rec |-> s.rec, ran |-> TRUE]
                       ELSE [exc |-> "", table |-> rows, stored |-> files, rec |-> made,
                             ran |-> TRUE] :
              e \in GenerateFile(rec)}

\* MultiresImage.process(save): its outcomes [exc, table, stored, rec, ran];
\* ran tells whether the pipeline was invoked
Process(rows, files, rec, save) ==
    IF rec.recipe = None \/ rec.source = ""
    THEN {[exc |-> e, table |-> rows, stored |-> files, rec |-> rec, ran |-> FALSE] :
          e \in MissingErrors(rec)}
    ELSE {IF e # ""
          THEN [exc |-> e, table |-> rows, stored |-> files, rec |-> rec, ran |-> TRUE]
          ELSE LET made == [rec EXCEPT
                               !.image = GeneratedFile(
                                   FileTypeExt(RecipeRows[rec.recipe[1]].fields.file_type)),
                               !.processed = TRUE]
               IN  IF save
                   THEN LET s == SaveRecord(rows, files, made)
                        IN  [exc |-> s.exc, table |-> s.table, stored |-> s.stored,
                             rec |-> s.rec, ran |-> TRUE]
                   ELSE [exc |-> "", table |-> rows, stored |-> files, rec |-> made,
                         ran |-> TRUE] :
          e \in GenerateFile(rec)}

\* the namespace of the MultiresImageField of the source model
FieldNamespace == "photos"

\* MultiresImageFieldFile._init_multires_image(recipe) on the file `name`
InitMultiresImage(name, recipe_id) == Record(None, name, Some(recipe_id), FALSE, NoFile)

\* get_multires_image after the lookup: the image is initialized, processed
\* unless async, and saved if save or not async; outcomes [exc, table,
\* stored, rec]
CreateMultiresImage(rows, files, name, recipe_id, async, save) ==
    LET made == InitMultiresImage(name, recipe_id)
        processed == IF async
                     THEN {[exc |-> "", table |-> rows, stored |-> files, rec |-> made]}
                     ELSE {[exc |-> o.exc, table |-> o.table, stored |-> o.stored,
                            rec |-> o.rec] : o \in Process(rows, files, made, TRUE)}
    IN  {IF o.exc = "" /\ (save \/ ~async)
         THEN SaveRecord(o.table, o.stored, o.rec)
         ELSE o : o \in processed}

\* the loop of get_all_multires_images over the missing recipes, in the
\* order of their primary keys; st is [exc, table, stored, items]
RECURSIVE CreateMissing(_, _, _, _, _)
CreateMissing(st, name, missing, async, save) ==
    IF missing = {} \/ st.exc # ""
    THEN {st}
    ELSE LET k == CHOOSE i \in missing : \A j \in missing : i <= j
         IN  UNION {CreateMissing([exc |-> o.exc, table |-> o.table,
                                   stored |-> o.stored,
                                   items |-> IF o.exc = ""
                                             THEN Append(st.items, o.rec)
                                             ELSE st.items],
                                  name, missing \ {k}, async, save) :
                    o \in CreateMultiresImage(st.table, st.stored, name, k, async, save)}

\* the rows of a queryset or the items of a list, in the order of the keys
RECURSIVE InOrder(_)
InOrder(rows) ==
    IF rows = {}
    THEN <<>>
    ELSE LET first == CHOOSE row \in rows : \A other \in rows : row.id[1] <= other.id[1]
         IN  <<first>> \o InOrder(rows \ {first})

\* get_all_multires_images on the file `name`: a queryset when
\* existing_only, else a list to which an image of every missing recipe of
\* the namespace has been added; outcomes [exc, table, stored, kind, items]
GetAllMultiresImages(rows, files, name, existing_only, processed_only, automatic_only, async, save) ==
    LET existing == {row \in rows :
                        /\ RecipeRows[row.recipe[1]].namespace = FieldNamespace
                        /\ row.source = name}
    IN  IF existing_only
        THEN {[exc |-> "", table |-> rows, stored |-> files, kind |-> "queryset",
               items |-> InOrder({row \in existing : ~processed_only \/ row.processed})]}
        ELSE LET missing == {k \in DOMAIN RecipeRows :
                                /\ RecipeRows[k].namespace = FieldNamespace
                                /\ ~automatic_only \/ RecipeRows[k].automatic
                                /\ \A row \in existing : row.recipe # Some(k)}
             IN  {[exc |-> st.exc, table |-> st.table, stored |-> st.stored,
                   kind |-> "list", items |-> st.items] :
                  st \in CreateMissing([exc |-> "", table |-> rows, stored |-> files,
                                        items |-> InOrder(existing)],
                                       name, missing, async, save)}

\* found.get(recipe=recipe): the one matching row of a queryset; a list
\* has no attribute `get`
GetByRecipe(found, recipe_id) ==
    IF found.kind # "queryset"
    THEN [exc |-> "AttributeError", rec |-> NoRecord]
    ELSE LET hits == {i \in DOMAIN found.items : found.items[i].recipe = Some(recipe_id)}
         IN  IF hits = {}
             THEN [exc |-> "DoesNotExist", rec |-> NoRecord]
             ELSE [exc |-> "", rec |-> found.items[CHOOSE i \in hits : TRUE]]

\* get_multires_image(recipe, async, save, try_lookup) on the file `name`:
\* outcomes [exc, table, stored, rec]
GetMultiresImage(rows, files, name, recipe_id, async, save, try_lookup) ==
    IF try_lookup
    THEN UNION {IF found.exc # ""
                THEN {[exc |-> found.exc, table |-> found.table,
                       stored |-> found.stored, rec |-> NoRecord]}
                ELSE LET got == GetByRecipe(found, recipe_id)
                     IN  IF got.exc = "DoesNotExist"
                         THEN CreateMultiresImage(found.table, found.stored, name,
                                                  recipe_id, async, save)
                         ELSE {[exc |-> got.exc, table |-> found.table,
                                stored |-> found.stored, rec |-> got.rec]} :
                found \in GetAllMultiresImages(rows, files, name, FALSE, FALSE, FALSE,
                                               TRUE, TRUE)}
    ELSE CreateMultiresImage(rows, files, name, recipe_id, async, save)

\* queryset.delete() of get_all_multires_images(existing_only=True) on the
\* file `name`: the rows left in the table
DeleteExisting(rows, name) ==
    LET found == CHOOSE o \in GetAllMultiresImages(rows, <<>>, name, TRUE, FALSE, FALSE,
                                                   TRUE, TRUE) : TRUE
    IN  rows \ {found.items[i] : i \in DOMAIN found.items}

\* a source model instance: the name of its multires image field, and the
\* name the field had when the instance was loaded or last saved, which is
\* what get_dirty_fields() reports for the field once it differs
Instance(state, file, original) ==
    [state |-> state, file |-> file, original |-> original]

\* a handler that looks at the field's current value instead of its old one
HandleSourceChange_Current(rows, instance) ==
    IF instance.file # instance.original /\ instance.file # ""
    THEN DeleteExisting(rows, instance.file)
    ELSE rows

\* MultiresImageField.handle_source_change(instance): the rows it leaves
HandleSourceChange(rows, instance) ==
    IF instance.file # instance.original /\ instance.original # ""
    THEN DeleteExisting(rows, instance.original)
    ELSE rows

\* MultiresImageField.handle_source_delete(instance): the rows it leaves
HandleSourceDelete(rows, instance) ==
    IF instance.file # ""
    THEN DeleteExisting(rows, instance.file)
    ELSE rows

\* a view that runs the pipeline on every request
NeedsProcessing_Always(rec) == TRUE

\* `not image.image` of the lazy view: the file field is empty
NeedsProcessing(rec) == rec.image.state = "none"

\* LazyMultiresImageFieldFile.url: the storage's URL of the file, or the
\* lazy URL of the record while it has no file
Url(rec) ==
    IF rec.image.state # "none"
    THEN [kind |-> "storage", file |-> rec.image, uuid |-> None]
    ELSE [kind |-> "lazy", file |-> NoFile, uuid |-> rec.id]

NoUrl == [kind |-> "", file |-> NoFile, uuid |-> None]

\* a request to the lazy view
Request(at, loaded, rec, ran, exc, location) ==
    [pc |-> at, loaded |-> loaded, rec |-> rec, ran |-> ran, exc |-> exc,
     location |-> location]

NewRequest == Request("get", NoRecord, NoRecord, FALSE, "", NoUrl)

(***************************************************************************)
(* State machines                                                          *)
(***************************************************************************)
Pending == [state |-> "pending", exc |-> "", image |-> NoImage, made |-> <<>>]

NoCall == Call("", NoImage, [none |-> None])

EngineIdle ==
    /\ recipe = [flip |-> ""]
    /\ source = NoImage
    /\ image = NoImage
    /\ pc = "idle"
    /\ calls = <<>>
    /\ error = ""
    /\ saved = NotSaved

ProcIdle == p_call = NoCall /\ p_ret = Pending

AnchorIdle ==
    /\ a_call = AnchorCall(<<0, 0>>, 0, 0, "")
    /\ a_ret = [state |-> "pending", exc |-> "", box |-> <<>>]

FileIdle == handle = NoHandle /\ gen = NoGen

CallsIdle == instances = <<>> /\ frames = <<>> /\ class_defaults = ClassDefaults

NoLookup == [state |-> "none"]

NoOwner == [state |-> "none"]

StoreIdle ==
    /\ table = {}
    /\ stored = <<>>
    /\ reqs = <<>>
    /\ lookup = NoLookup
    /\ owner = NoOwner

\* the engine is called with an image and a recipe; process starts
Init ==
    /\ recipe \in Recipes
    /\ source \in EngineSources
    /\ image = source
    /\ pc = "flip"
    /\ calls = <<>>
    /\ error = ""
    /\ saved = NotSaved
    /\ ProcIdle
    /\ AnchorIdle
    /\ FileIdle
    /\ CallsIdle
    /\ StoreIdle

\* process that catches the exception of a stage and carries on with the
\* image the stage was given
Advance_Swallow(stage, o) ==
    /\ calls' = calls \o o.called
    /\ image' = IF o.exc = "" THEN o.image ELSE image
    /\ pc' = StageAfter(stage)
    /\ error' = error
    /\ UNCHANGED <<recipe, source, saved, non_engine_vars>>

\* one statement of DefaultEngine.process has run with outcome o
Advance(stage, o) ==
    /\ calls' = calls \o o.called
    /\ IF o.exc = ""
       THEN /\ image' = o.image
            /\ pc' = StageAfter(stage)
            /\ error' = error
       ELSE /\ image' = image
            /\ pc' = "raised"
            /\ error' = o.exc
    /\ UNCHANGED <<recipe, source, saved, non_engine_vars>>

DoFlip ==
    /\ pc = "flip"
    /\ \E o \in FlipStage(recipe, image) : Advance("flip", o)

DoRotate ==
    /\ pc = "rotate"
    /\ \E o \in RotateStage(recipe, image) : Advance("rotate", o)

DoCrop ==
    /\ pc = "crop"
    /\ \E o \in CropStage(recipe, image) : Advance("crop", o)

DoResize ==
    /\ pc = "resize"
    /\ \E o \in ResizeStage(recipe, image) : Advance("resize", o)

\* BaseEngine.__call__: file = self.save(image)
DoSave ==
    /\ pc = "done"
    /\ \E o \in EngineSave(recipe, image) :
          /\ saved' = o.call
          /\ pc' = IF o.exc = "" THEN "returned" ELSE "raised"
          /\ error' = o.exc
    /\ UNCHANGED <<recipe, source, image, calls, non_engine_vars>>

Next == DoFlip \/ DoRotate \/ DoCrop \/ DoResize \/ DoSave

Spec == Init /\ [][Next]_vars

\* a processor callable is called once and returns or raises
Return(o) ==
    /\ p_ret.state = "pending"
    /\ p_ret' = [state |-> "returned", exc |-> o.exc, image |-> o.image, made |-> o.made]
    /\ UNCHANGED <<p_call, non_proc_vars>>

CallFlip ==
    /\ p_call.processor = "flip_processor"
    /\ \E o \in flip_processor(p_call.image, p_call.options) : Return(o)

CallRotate ==
    /\ p_call.processor = "rotate_processor"
    /\ \E o \in rotate_processor(p_call.image, p_call.options) : Return(o)

CallRotateCrop ==
    /\ p_call.processor = "rotate_crop_processor"
    /\ \E o \in rotate_crop_processor(p_call.image, p_call.options) : Return(o)

CallCrop ==
    /\ p_call.processor = "crop_processor"
    /\ \E o \in crop_processor(p_call.image, p_call.options) : Return(o)

CallResize ==
    /\ p_call.processor = "resize_processor"
    /\ \E o \in resize_processor(p_call.image, p_call.options) : Return(o)

InitProcessor ==
    /\ \/ p_call \in FlipCalls
       \/ p_call \in RotateCalls
       \/ p_call \in RotateCropCalls
       \/ p_call \in CropCalls
    /\ p_ret = Pending
    /\ EngineIdle
    /\ AnchorIdle
    /\ FileIdle
    /\ CallsIdle
    /\ StoreIdle

NextProcessor == CallFlip \/ CallRotate \/ CallRotateCrop \/ CallCrop

SpecProcessor == InitProcessor /\ [][NextProcessor]_vars

InitResize ==
    /\ p_call \in ResizeCalls
    /\ p_ret = Pending
    /\ EngineIdle
    /\ AnchorIdle
    /\ FileIdle
    /\ CallsIdle
    /\ StoreIdle

NextResize == CallResize

SpecResize == InitResize /\ [][NextResize]_vars

\* get_crop_box is called once
CallGetCropBox ==
    /\ a_ret.state = "pending"
    /\ LET b == AnchorCropBox(a_call.size, a_call.width, a_call.height, a_call.anchor)
       IN  a_ret' = [state |-> "returned", exc |-> b.exc, box |-> b.box]
    /\ UNCHANGED <<a_call, non_anchor_vars>>

InitAnchor ==
    /\ a_call \in AnchorCalls
    /\ a_ret = [state |-> "pending", exc |-> "", box |-> <<>>]
    /\ EngineIdle
    /\ ProcIdle
    /\ FileIdle
    /\ CallsIdle
    /\ StoreIdle

NextAnchor == CallGetCropBox

SpecAnchor == InitAnchor /\ [][NextAnchor]_vars

\* images of every colour mode at the entry of save
SaveModes == {"RGB", "RGBA", "L", "P"}

SaveRecipes ==
    [flip : {""}, rotate : {None}, rotate_crop : {""}, rotate_color : {None},
     crop : {NoCrop}, width : {None}, height : {None}, fit : {"fit"},
     upscale : {FALSE},
     file_type : {"jpeg", "png"},
     quality : {None, Some(0), Some(75)}]

\* full_process has returned the image that save is called with
InitSave ==
    /\ recipe \in SaveRecipes
    /\ source \in {SourceImage(w, h, m) : w \in 1..MaxDim, h \in 1..MaxDim, m \in SaveModes}
    /\ image = source
    /\ pc = "done"
    /\ calls = <<>>
    /\ error = ""
    /\ saved = NotSaved
    /\ ProcIdle
    /\ AnchorIdle
    /\ FileIdle
    /\ CallsIdle
    /\ StoreIdle

NextSave == DoSave

SpecSave == InitSave /\ [][NextSave]_vars

\* recipes and sources around the documented end-to-end example: a landscape
\* or portrait RGB source, an optional quarter turn, a bounding box
ScenarioDims == {100, 200}

ScenarioRecipes ==
    [flip : {""}, rotate : {None, Some(90)}, rotate_crop : {""}, rotate_color : {None},
     crop : {NoCrop}, width : {None, Some(50)}, height : {None, Some(25), Some(50)},
     fit : {"fit"}, upscale : BOOLEAN,
     file_type : {"jpeg", "png"},
     quality : {None, Some(80)}]

InitScenario ==
    /\ recipe \in ScenarioRecipes
    /\ source \in {SourceImage(w, h, "RGB") : w \in ScenarioDims, h \in ScenarioDims}
    /\ image = source
    /\ pc = "flip"
    /\ calls = <<>>
    /\ error = ""
    /\ saved = NotSaved
    /\ ProcIdle
    /\ AnchorIdle
    /\ FileIdle
    /\ CallsIdle
    /\ StoreIdle

SpecScenario == InitScenario /\ [][Next]_vars

\* if image.closed: image.open()
GenReopen ==
    /\ gen.pc = "start"
    /\ handle.kind = "field"
    /\ handle' = IF handle.closed
                 THEN [handle EXCEPT !.closed = FALSE, !.pos = 0]
                 ELSE handle
    /\ gen' = [gen EXCEPT !.pc = "seek"]
    /\ UNCHANGED non_file_vars

\* image.seek(0) on the file
GenSeek ==
    /\ gen.pc = "seek"
    /\ handle' = [handle EXCEPT !.pos = 0]
    /\ gen' = [gen EXCEPT !.pc = "decode"]
    /\ UNCHANGED non_file_vars

\* image = Image.open(image), on the path or on the file
GenDecode ==
    /\ \/ gen.pc = "start" /\ handle.kind = "path"
          /\ handle' = handle
          /\ gen' = Gen("engine", handle.content, "")
       \/ gen.pc = "decode"
          /\ \E n \in HeaderReads : handle' = [handle EXCEPT !.pos = handle.pos + n]
          /\ gen' = Gen("frame", handle.content, "")
    /\ UNCHANGED non_file_vars

\* image.seek(0) with `image` now the PIL image: Image.seek(frame) selects
\* frame 0, the frame the image is at; the file is not touched
GenSeekFrame ==
    /\ gen.pc = "frame"
    /\ gen' = [gen EXCEPT !.pc = "engine"]
    /\ UNCHANGED <<handle, non_file_vars>>

\* return engine(image, recipe)
GenEngine ==
    /\ gen.pc = "engine"
    /\ \E e \in EngineCall(recipe, gen.image) :
          gen' = [gen EXCEPT !.pc = IF e = "" THEN "returned" ELSE "raised", !.exc = e]
    /\ UNCHANGED <<handle, non_file_vars>>

FileContents == {SourceImage(w, h, m) : w \in 1..MaxDim, h \in 1..MaxDim, m \in SaveModes}

FileHandles ==
    {Handle("path", TRUE, 0, c) : c \in FileContents}
    \cup {Handle("field", TRUE, 0, c) : c \in FileContents}
    \cup {Handle("field", FALSE, k, c) : k \in 0..MaxHeader, c \in FileContents}

\* generate_multires_image_file(image, recipe) is called
InitFile ==
    /\ handle \in FileHandles
    /\ gen = Gen("start", NoImage, "")
    /\ recipe \in SaveRecipes
    /\ source = NoImage
    /\ image = NoImage
    /\ pc = "idle"
    /\ calls = <<>>
    /\ error = ""
    /\ saved = NotSaved
    /\ ProcIdle
    /\ AnchorIdle
    /\ CallsIdle
    /\ StoreIdle

NextFile == GenReopen \/ GenSeek \/ GenDecode \/ GenSeekFrame \/ GenEngine

SpecFile == InitFile /\ [][NextFile]_vars

Callers == {1, 2}

Frame(at, self, call, im, exc) ==
    [pc |-> at, self |-> self, call |-> call, image |-> im, exc |-> exc]

\* the wrapper constructs the instance: cls()
ConstructInstance ==
    \E c \in Callers :
        /\ frames[c].pc = "call"
        /\ LET a == Allocate(instances)
           IN  /\ instances' = a.heap
               /\ frames' = [frames EXCEPT ![c].pc = "prep", ![c].self = a.self]
        /\ UNCHANGED <<class_defaults, non_call_vars>>

\* __call__ starts: self.prep(image, options), or self.recipe = recipe
PrepInstance ==
    \E c \in Callers :
        /\ frames[c].pc = "prep"
        /\ instances' = [instances EXCEPT
                            ![frames[c].self] = <<PrepFor(frames[c].call, class_defaults)>>]
        /\ frames' = [frames EXCEPT ![c].pc = "process"]
        /\ UNCHANGED <<class_defaults, non_call_vars>>

\* __call__ goes on: self.process(image), or self.full_process(image)
ProcessImage ==
    \E c \in Callers :
        /\ frames[c].pc = "process"
        /\ \E o \in ProcessFor(frames[c].call, instances[frames[c].self][1]) :
              frames' = [frames EXCEPT
                  ![c].pc = IF o.exc = "" /\ frames[c].call.processor = "engine"
                            THEN "save" ELSE "returned",
                  ![c].image = o.image,
                  ![c].exc = o.exc]
        /\ UNCHANGED <<instances, class_defaults, non_call_vars>>

\* the engine's __call__ ends: file = self.save(image)
SaveImage ==
    \E c \in Callers :
        /\ frames[c].pc = "save"
        /\ \E o \in EngineSave(instances[frames[c].self][1].recipe, frames[c].image) :
              frames' = [frames EXCEPT
                  ![c].pc = "returned",
                  ![c].image = o.call.image,
                  ![c].exc = o.exc]
        /\ UNCHANGED <<instances, class_defaults, non_call_vars>>

ConcurrentImages == {SourceImage(w, h, "P") : w \in 1..MaxDim, h \in 1..MaxDim}

CropPairCalls ==
    {Call("crop_processor", im, [crop_box |-> b, crop_percent |-> pct]) :
        im \in ConcurrentImages,
        b \in {CropList(Some(50), Some(0), Some(0), Some(0)),
               CropList(Some(0), Some(50), Some(0), Some(0))},
        pct \in {TRUE}}

RotatePairCalls ==
    {Call("rotate_processor", im,
          [degrees |-> d, extend |-> TRUE, color |-> None, preserve_transparency |-> TRUE]) :
        im \in ConcurrentImages, d \in {90, 30}}

EnginePairCalls ==
    {Call("engine", im, r) :
        im \in ConcurrentImages,
        r \in {x \in SaveRecipes : x.quality = None}}

\* two callers call the same callable with different images or options
InitCalls ==
    /\ instances = <<>>
    /\ class_defaults = ClassDefaults
    /\ \E S \in {CropPairCalls, RotatePairCalls, EnginePairCalls} :
          \E a \in S, b \in S :
              /\ a # b
              /\ frames = [c \in Callers |->
                              Frame("call", 0, IF c = 1 THEN a ELSE b, NoImage, "")]
    /\ EngineIdle
    /\ ProcIdle
    /\ AnchorIdle
    /\ FileIdle
    /\ StoreIdle

NextCalls == ConstructInstance \/ PrepInstance \/ ProcessImage \/ SaveImage

SpecCalls == InitCalls /\ [][NextCalls]_vars

(***************************************************************************)
(* multires/views.py: LazyMultiresImage.get                                *)
(***************************************************************************)
Requests == 1..MaxRequests

\* the uuid in the URL of the requests
RequestedId == 1

InFlight(r) == reqs[r].pc \notin {"get", "done", "raised"}

\* image = self.get_object()
GetObject(r) ==
    /\ reqs[r].pc = "get"
    /\ \E row \in table :
          /\ row.id = Some(RequestedId)
          /\ reqs' = [reqs EXCEPT ![r] = Request("check", row, row, FALSE, "", NoUrl)]
    /\ UNCHANGED <<table, stored, lookup, owner, non_store_vars>>

\* a request arrives while no other request is being served
ViewGetObjectAlone ==
    \E r \in Requests :
        /\ \A q \in Requests : ~InFlight(q)
        /\ GetObject(r)

\* a request arrives
ViewGetObject == \E r \in Requests : GetObject(r)

\* if not image.image:
ViewCheck ==
    \E r \in Requests :
        /\ reqs[r].pc = "check"
        /\ reqs' = [reqs EXCEPT ![r].pc = IF NeedsProcessing(reqs[r].rec)
                                          THEN "process" ELSE "redirect"]
        /\ UNCHANGED <<table, stored, lookup, owner, non_store_vars>>

\* image.process(save=True)
ViewProcess ==
    \E r \in Requests :
        /\ reqs[r].pc = "process"
        /\ \E o \in Process(table, stored, reqs[r].rec, TRUE) :
              /\ table' = o.table
              /\ stored' = o.stored
              /\ reqs' = [reqs EXCEPT ![r].rec = o.rec,
                                      ![r].ran = o.ran,
                                      ![r].exc = o.exc,
                                      ![r].pc = IF o.exc = "" THEN "redirect" ELSE "raised"]
        /\ UNCHANGED <<lookup, owner, non_store_vars>>

\* return HttpResponseRedirect(image.image.url)
ViewRedirect ==
    \E r \in Requests :
        /\ reqs[r].pc = "redirect"
        /\ reqs' = [reqs EXCEPT ![r].location = Url(reqs[r].rec), ![r].pc = "done"]
        /\ UNCHANGED <<table, stored, lookup, owner, non_store_vars>>

\* a MultiresImage as get_multires_image(async=True) leaves it in the
\* database, or one whose source name is empty
LazyRecords ==
    {Record(Some(RequestedId), name, Some(k), FALSE, NoFile) :
        name \in {"a", "b", ""}, k \in DOMAIN RecipeRows}

InitLazy ==
    /\ \E row \in LazyRecords : table = {row}
    /\ stored = <<>>
    /\ reqs = [r \in Requests |-> NewRequest]
    /\ lookup = NoLookup
    /\ owner = NoOwner
    /\ EngineIdle
    /\ ProcIdle
    /\ AnchorIdle
    /\ FileIdle
    /\ CallsIdle

NextLazy == ViewGetObjectAlone \/ ViewCheck \/ ViewProcess \/ ViewRedirect

\* requests served one after the other
SpecLazy == InitLazy /\ [][NextLazy]_vars

NextLazyConcurrent == ViewGetObject \/ ViewCheck \/ ViewProcess \/ ViewRedirect

\* requests served by concurrent workers
SpecLazyConcurrent == InitLazy /\ [][NextLazyConcurrent]_vars

(***************************************************************************)
(* multires/fields.py: calls of MultiresImageFieldFile.get_multires_image  *)
(***************************************************************************)
\* the names a source field file can have; '' is the empty field
FieldNames == {"a", "b", ""}

LookupCall(n, name, recipe_id, async, save, try_lookup, before, o) ==
    [state |-> IF o.exc = "" THEN "returned" ELSE "raised",
     calls |-> n, name |-> name, recipe |-> recipe_id, async |-> async,
     save |-> save, try_lookup |-> try_lookup, before |-> before,
     exc |-> o.exc, rec |-> o.rec]

\* field_file.get_multires_image(recipe, async, save, try_lookup)
CallGetMultiresImage ==
    /\ lookup.calls < MaxLookups
    /\ \E name \in FieldNames, k \in DOMAIN RecipeRows,
          async \in BOOLEAN, save \in BOOLEAN, try_lookup \in BOOLEAN :
          \E o \in GetMultiresImage(table, stored, name, k, async, save, try_lookup) :
              /\ table' = o.table
              /\ stored' = o.stored
              /\ lookup' = LookupCall(lookup.calls + 1, name, k, async, save,
                                      try_lookup, table, o)
    /\ UNCHANGED <<reqs, owner, non_store_vars>>

InitLookup ==
    /\ table = {}
    /\ stored = <<>>
    /\ reqs = <<>>
    /\ lookup = LookupCall(0, "", 1, TRUE, TRUE, TRUE, {}, [exc |-> "", rec |-> NoRecord])
    /\ owner = NoOwner
    /\ EngineIdle
    /\ ProcIdle
    /\ AnchorIdle
    /\ FileIdle
    /\ CallsIdle

NextLookup == CallGetMultiresImage

SpecLookup == InitLookup /\ [][NextLookup]_vars

(***************************************************************************)
(* multires/fields.py: the signal handlers of MultiresImageField on a      *)
(* source model with dirty-field tracking                                  *)
(***************************************************************************)
\* instance.<field>.get_multires_image(recipe, async, save, try_lookup)
CallOnInstance ==
    /\ lookup.calls < MaxLookups
    /\ \E k \in DOMAIN RecipeRows,
          async \in BOOLEAN, save \in BOOLEAN, try_lookup \in BOOLEAN :
          \E o \in GetMultiresImage(table, stored, owner.file, k, async, save,
                                    try_lookup) :
              /\ table' = o.table
              /\ stored' = o.stored
              /\ lookup' = LookupCall(lookup.calls + 1, owner.file, k, async, save,
                                      try_lookup, table, o)
    /\ UNCHANGED <<reqs, owner, non_store_vars>>

\* instance.<field> = another file, not saved yet
AssignFile ==
    /\ owner.state = "live"
    /\ \E name \in FieldNames \ {owner.file} :
          owner' = Instance("live", name, owner.original)
    /\ UNCHANGED <<table, stored, reqs, lookup, non_store_vars>>

\* instance.save(): post_save runs handle_source_change, then the dirty
\* state of the instance is reset
SaveInstance ==
    /\ owner.state = "live"
    /\ table' = HandleSourceChange(table, owner)
    /\ owner' = Instance("live", owner.file, owner.file)
    /\ UNCHANGED <<stored, reqs, lookup, non_store_vars>>

\* instance.delete(): post_delete runs handle_source_delete
DeleteInstance ==
    /\ owner.state = "live"
    /\ table' = HandleSourceDelete(table, owner)
    /\ owner' = Instance("deleted", owner.file, owner.original)
    /\ UNCHANGED <<stored, reqs, lookup, non_store_vars>>

InitSource ==
    /\ table = {}
    /\ stored = <<>>
    /\ reqs = <<>>
    /\ lookup = LookupCall(0, "", 1, TRUE, TRUE, TRUE, {}, [exc |-> "", rec |-> NoRecord])
    /\ \E name \in FieldNames : owner = Instance("live", name, name)
    /\ EngineIdle
    /\ ProcIdle
    /\ AnchorIdle
    /\ FileIdle
    /\ CallsIdle

NextSource == CallOnInstance \/ AssignFile \/ SaveInstance \/ DeleteInstance

SpecSource == InitSource /\ [][NextSource]_vars

(***************************************************************************)
(* Claims                                                                  *)
(***************************************************************************)
StageIndex(name) ==
    CASE name = "flip_processor" -> 1
      [] name \in {"rotate_processor", "rotate_crop_processor"} -> 2
      [] name = "crop_processor" -> 3
      [] name = "resize_processor" -> 4

\* the processors a recipe triggers, in the order flip, rotate, crop, resize
TriggeredCalls(r) ==
    (IF r.flip # "" THEN <<"flip_processor">> ELSE <<>>)
    \o (IF Truthy(r.rotate)
        THEN <<IF r.rotate_crop = "" THEN "rotate_processor" ELSE "rotate_crop_processor">>
        ELSE <<>>)
    \o (IF r.crop.kind # "none" THEN <<"crop_processor">> ELSE <<>>)
    \o (IF Truthy(r.width) \/ Truthy(r.height) THEN <<"resize_processor">> ELSE <<>>)

IsPrefix(a, b) == Len(a) <= Len(b) /\ a = SubSeq(b, 1, Len(a))

C1_Order ==
    /\ pc \in {"flip", "rotate", "crop", "resize", "done", "returned", "raised"}
    /\ \A i, j \in 1..Len(calls) : i < j => StageIndex(calls[i]) < StageIndex(calls[j])
    /\ IsPrefix(calls, TriggeredCalls(recipe))
    /\ pc \in {"done", "returned"} => calls = TriggeredCalls(recipe)

C1_SkipUnchanged ==
    LET skips == \/ pc = "flip" /\ recipe.flip = ""
                 \/ pc = "rotate" /\ ~Truthy(recipe.rotate)
                 \/ pc = "crop" /\ recipe.crop.kind = "none"
                 \/ pc = "resize" /\ ~Truthy(recipe.width) /\ ~Truthy(recipe.height)
    IN  skips => image' = image /\ calls' = calls /\ error' = ""

\* C1: DefaultEngine.process invokes the processors in the fixed order flip,
\* rotate (plain or rotate+crop), crop, resize, each at most once and exactly
\* those whose recipe field is set; a stage whose field is empty, zero or
\* absent leaves the image as it was.
C1_FixedOrder == []C1_Order /\ [][C1_SkipUnchanged]_vars

C1_Witness ==
    /\ pc = "done"
    /\ calls = <<"flip_processor", "rotate_crop_processor", "crop_processor",
                 "resize_processor">>

RotateVariants(r, crops, colors) ==
    {[r EXCEPT !.rotate_crop = rc, !.rotate_color = col] : rc \in crops, col \in colors}

EngineResult == [exc |-> error, image |-> IF error = "" THEN image ELSE NoImage]

\* C2: when rotate is empty or zero the result of the pipeline does not
\* depend on rotate_crop and rotate_color, and when rotate_crop is set it
\* does not depend on rotate_color.
C2_RotateOptionsInert ==
    pc \in {"done", "raised"} /\ saved = NotSaved =>
        /\ ~Truthy(recipe.rotate) =>
              \A v \in RotateVariants(recipe, {"", "aspect_ratio", "max_area"},
                                      {None, Opaque}) :
                  EngineResult \in EngineProcess(v, source)
        /\ recipe.rotate_crop # "" =>
              \A v \in RotateVariants(recipe, {recipe.rotate_crop}, {None, Opaque}) :
                  EngineResult \in EngineProcess(v, source)

C2_Witness ==
    /\ pc = "done"
    /\ recipe.rotate = Some(30)
    /\ recipe.rotate_crop = "aspect_ratio"
    /\ recipe.rotate_color = Opaque
    /\ "rotate_crop_processor" \in {calls[i] : i \in 1..Len(calls)}

Returns(processor) == p_ret.state = "returned" /\ p_call.processor = processor

Columns(im) == 0..(im.size[1] - 1)

Rows(im) == 0..(im.size[2] - 1)

\* C3: flip='' returns the image unchanged, flip='x' mirrors it around the
\* horizontal axis (rows reversed, upside-down), flip='y' around the
\* vertical axis (columns reversed, left-right).
C3_FlipAxes ==
    Returns("flip_processor") =>
        LET in == p_call.image
            out == p_ret.image
            flip == p_call.options.flip
        IN  /\ p_ret.exc = ""
            /\ out.size = in.size
            /\ flip = "" => out = in
            /\ flip = "x" =>
                  \A x \in Columns(in), y \in Rows(in) :
                      PixelAt(out, x, y) = PixelAt(in, x, in.size[2] - 1 - y)
            /\ flip = "y" =>
                  \A x \in Columns(in), y \in Rows(in) :
                      PixelAt(out, x, y) = PixelAt(in, in.size[1] - 1 - x, y)

ZeroInsets == <<Some(0), Some(0), Some(0), Some(0)>>

\* C4: flip with flip='' and rotate with degrees=0 (whatever extend, color
\* and preserve_transparency are) return the image they were given, and crop
\* with crop_box (0,0,0,0), in percent or in pixels, returns an image of the
\* same size with the same pixels.
C4_Identities ==
    /\ Returns("flip_processor") /\ p_call.options.flip = "" =>
          p_ret.exc = "" /\ p_ret.image = p_call.image /\ p_ret.made = <<>>
    /\ Returns("rotate_processor") /\ p_call.options.degrees = 0 =>
          p_ret.exc = "" /\ p_ret.image = p_call.image /\ p_ret.made = <<>>
    /\ Returns("crop_processor") /\ p_call.options.crop_box.kind # "none"
          /\ p_call.options.crop_box.items = ZeroInsets =>
          p_ret.exc = "" /\ SamePixels(p_ret.image, p_call.image)

C4_Witness ==
    /\ Returns("crop_processor")
    /\ p_call.options.crop_box = [kind |-> "tuple", items |-> ZeroInsets]
    /\ ~p_call.options.crop_percent
    /\ p_call.image.size = <<2, 2>>
    /\ p_ret.image.data.op = "crop"

\* the bounding box of the running resize call: absent means the source's
BoxWidth == OrElse(p_call.options.width, p_call.image.size[1])

BoxHeight == OrElse(p_call.options.height, p_call.image.size[2])

\* C5: with fit='fit' the resized image is at most the bounding box wide and
\* high and at least 1 pixel wide and high, for either upscale value.
C5_FitWithinBox ==
    Returns("resize_processor") /\ p_call.options.fit = "fit" =>
        /\ p_ret.exc = ""
        /\ p_ret.image.size[1] \in 1..BoxWidth
        /\ p_ret.image.size[2] \in 1..BoxHeight
        /\ Max(p_ret.image.size[1], p_ret.image.size[2]) <= Max(BoxWidth, BoxHeight)

C5_Witness ==
    /\ Returns("resize_processor")
    /\ p_call.options.fit = "fit"
    /\ ~p_call.options.upscale
    /\ p_call.image.size = <<6, 4>>
    /\ p_call.options.width = Some(3)
    /\ p_call.options.height = Some(3)
    /\ p_ret.image.size = <<3, 2>>

\* s = min(1, W/w, H/h) as the fraction num/den
ScaleOfFit ==
    LET w == p_call.image.size[1]
        h == p_call.image.size[2]
        byWidth == IF BoxWidth * h <= BoxHeight * w
                   THEN [num |-> BoxWidth, den |-> w]
                   ELSE [num |-> BoxHeight, den |-> h]
    IN  IF byWidth.num >= byWidth.den THEN [num |-> 1, den |-> 1] ELSE byWidth

\* C6: with fit='fit' and upscale false the output (w', h') is within one
\* pixel of the source scaled by s = min(1, W/w, H/h) in each dimension.
C6_AspectWithinOnePixel ==
    Returns("resize_processor") /\ p_call.options.fit = "fit" /\ ~p_call.options.upscale =>
        LET s == ScaleOfFit
        IN  /\ p_ret.exc = ""
            /\ Abs(p_ret.image.size[1] * s.den - s.num * p_call.image.size[1]) <= s.den
            /\ Abs(p_ret.image.size[2] * s.den - s.num * p_call.image.size[2]) <= s.den

C8_NeverEnlarges ==
    Returns("resize_processor") /\ p_call.options.fit \in FitModes /\ ~p_call.options.upscale =>
        /\ p_ret.exc = ""
        /\ \A i \in 1..Len(p_ret.made) :
              /\ p_ret.made[i].size[1] <= p_call.image.size[1]
              /\ p_ret.made[i].size[2] <= p_call.image.size[2]
        /\ p_ret.image.size[1] <= p_call.image.size[1]
        /\ p_ret.image.size[2] <= p_call.image.size[2]

AnchorReturns == a_ret.state = "returned"

\* the target extent clamped to the image's
Clamped(target, dimension) == Min(target, dimension)

\* c is num/den (den > 0) with its fractional part dropped
IsTruncationOf(c, num, den) ==
    /\ Abs(c * den - num) < den
    /\ Abs(c * den) <= Abs(num)

\* c centres an extent in a dimension: the truncation of int(dimension/2) - extent/2
IsCentred(c, extent, dimension) ==
    \E half \in 0..dimension :
        /\ IsTruncationOf(half, dimension, 2)
        /\ IsTruncationOf(c, 2 * half - extent, 2)

\* C9: for each of the anchors center, crop, fill, top, left, right and bottom
\* get_crop_box returns (x1, y1, x1 + width, y1 + height) for the width and
\* height clamped to the image size, with x1 centred except 0 for left and
\* w - width for right, and y1 centred except 0 for top and h - height for
\* bottom; size (100,100) with target 40x40 and anchor right gives (60,30,100,70).
C9_AnchorBox ==
    AnchorReturns /\ a_call.anchor \in AnchorNames =>
        LET w == a_call.size[1]
            h == a_call.size[2]
            width == Clamped(a_call.width, w)
            height == Clamped(a_call.height, h)
            box == a_ret.box
        IN  /\ a_ret.exc = ""
            /\ Len(box) = 4
            /\ box[3] = box[1] + width
            /\ box[4] = box[2] + height
            /\ CASE a_call.anchor = "left" -> box[1] = 0
                 [] a_call.anchor = "right" -> box[1] = w - width
                 [] OTHER -> IsCentred(box[1], width, w)
            /\ CASE a_call.anchor = "top" -> box[2] = 0
                 [] a_call.anchor = "bottom" -> box[2] = h - height
                 [] OTHER -> IsCentred(box[2], height, h)
            /\ (a_call = AnchorCall(<<100, 100>>, 40, 40, "right")
                    => box = <<60, 30, 100, 70>>)

C9_Witness ==
    /\ AnchorReturns
    /\ a_call = AnchorCall(<<100, 100>>, 40, 40, "right")
    /\ a_ret.box = <<60, 30, 100, 70>>

\* the inset given as component i of the crop box, 0 when missing
InsetGiven(i) ==
    LET given == p_call.options.crop_box
    IN  IF given.kind = "none" \/ given.items[i] = None THEN 0 ELSE given.items[i][1]

\* the box the crop operator is to crop to
C10_Expected ==
    LET W == p_call.image.size[1]
        H == p_call.image.size[2]
    IN  IF p_call.options.crop_percent
        THEN <<Trunc(InsetGiven(1) * W, 100),
               Trunc(InsetGiven(2) * H, 100),
               Trunc(100 * W - InsetGiven(3) * W, 100),
               Trunc(100 * H - InsetGiven(4) * H, 100)>>
        ELSE <<InsetGiven(1), InsetGiven(2), W - InsetGiven(3), H - InsetGiven(4)>>

C10_BoxAsStated ==
    Returns("crop_processor") /\ p_ret.exc = "" => p_ret.image.data.args = C10_Expected

\* C10: the crop operator crops to (int(x1/100*W), int(y1/100*H),
\* int(W - x2/100*W), int(H - y2/100*H)) in percent mode and to
\* (x1, y1, W - x2, H - y2) in pixel mode; a missing crop_box or a missing
\* (None) component counts as inset 0 and never causes an error.
C10_CropBox ==
    /\ C10_BoxAsStated
    /\ Returns("crop_processor") => p_ret.exc # "TypeError"

\* the lossless transpose of the image of the running call for
\* degrees mod 360: the image itself for 0
TransposeFor(degrees) ==
    LET d == degrees % 360
    IN  CASE d = 0 -> p_call.image
          [] d = 90 -> PilTranspose(p_call.image, "ROTATE_90")
          [] d = 180 -> PilTranspose(p_call.image, "ROTATE_180")
          [] d = 270 -> PilTranspose(p_call.image, "ROTATE_270")

\* C11: for every degrees that is a multiple of 90, negative ones and ones
\* of 360 or more included, rotate completes without error and returns the
\* lossless transpose for degrees mod 360 (the image itself for 0), with no
\* resampling and no colour fill even when a colour is given.
C11_TransposeEveryMultiple ==
    Returns("rotate_processor") /\ p_call.options.degrees % 90 = 0 =>
        /\ p_ret.exc = ""
        /\ p_ret.image = TransposeFor(p_call.options.degrees)
        /\ \A i \in 1..Len(p_ret.made) :
              p_ret.made[i].data.op \in {"ROTATE_90", "ROTATE_180", "ROTATE_270"}

\* the running rotate+crop call rotates by a non-multiple of 90 degrees with
\* one of the two crop modes and has cut its rectangle out of the rotated image
RotateCropCuts ==
    /\ Returns("rotate_crop_processor")
    /\ p_call.options.degrees % 90 # 0
    /\ p_call.options.crop_mode \in CropModes
    /\ p_ret.exc = ""

\* C12: for a non-multiple-of-90 degrees and each crop mode the rectangle
\* rotate+crop cuts out of the rotated image is at most as wide and at most
\* as high as the rotated (extended) canvas.
C12_RectWithinCanvas ==
    RotateCropCuts =>
        LET n == Len(p_ret.made)
            rotated == p_ret.made[n - 1]
            cropped == p_ret.made[n]
            box == cropped.data.args
        IN  /\ n = 2
            /\ rotated.data.op = "rotate"
            /\ rotated.size = PilRotatedSize(p_call.image.size, p_call.options.degrees)
            /\ cropped.data.op = "crop"
            /\ cropped.data.of = <<rotated>>
            /\ box[3] - box[1] <= rotated.size[1]
            /\ box[4] - box[2] <= rotated.size[2]
            /\ cropped.size[1] <= rotated.size[1]
            /\ cropped.size[2] <= rotated.size[2]

\* a 2x1 image turned by 150 degrees: the aspect_ratio rectangle (14, 7) is
\* cut down to the 3x2 canvas
C12_Witness ==
    /\ RotateCropCuts
    /\ p_call.image.size = <<2, 1>>
    /\ p_call.options.degrees = 150
    /\ p_call.options.crop_mode = "aspect_ratio"
    /\ p_ret.made[1].size = <<3, 2>>
    /\ p_ret.image.size = <<3, 2>>

\* C13: every image a stage of the pipeline (flip, rotate, rotate+crop, crop,
\* resize) leaves for the next stage or for the encoder is at least 1 pixel
\* wide and 1 pixel high, for a recipe within its domains and a source of
\* positive size.
C13_PositiveSizes ==
    pc \in {"flip", "rotate", "crop", "resize", "done"} =>
        /\ image.size[1] >= 1
        /\ image.size[2] >= 1

\* the running resize call is given a bounding box width or height of zero
ZeroBox == p_call.options.width = Some(0) \/ p_call.options.height = Some(0)

\* the options of the running resize call with a zero box dimension left out
ZeroBoxAbsent ==
    [p_call.options EXCEPT
        !.width = IF @ = Some(0) THEN None ELSE @,
        !.height = IF @ = Some(0) THEN None ELSE @]

C15_UnknownCropModeFails ==
    /\ Returns("rotate_crop_processor")
    /\ p_call.options.crop_mode \notin CropModes
    /\ p_call.options.degrees # 0
    => /\ p_ret.exc # ""
       /\ p_ret.made = <<>>

\* the running resize call is given a fit keyword outside fit, center, crop,
\* fill, top, left, right, bottom and has returned
UnknownFitReturns ==
    Returns("resize_processor") /\ p_call.options.fit \notin FitModes

\* C16: resize called with a fit keyword outside {fit, center, crop, fill,
\* top, left, right, bottom} fails with the error of an unsupported anchor,
\* raised before the image has been resampled to the scaled size.
C16_UnknownFitFailsFirst ==
    UnknownFitReturns =>
        /\ p_ret.exc = "ValueError"
        /\ p_ret.made = <<>>

\* C16 as the code has it: the call fails with the error of an unsupported
\* anchor and returns no image, but only once the image has been resampled
\* to the scaled size, which is at least the bounding box.
C16_UnknownFitFailsAfterResample ==
    UnknownFitReturns =>
        /\ p_ret.exc = "ValueError"
        /\ p_ret.image = NoImage
        /\ Len(p_ret.made) = 1
        /\ p_ret.made[1].data.op = "resize"
        /\ p_ret.made[1].data.of = <<p_call.image>>
        /\ p_ret.made[1].size[1] >= BoxWidth
        /\ p_ret.made[1].size[2] >= BoxHeight

C16_Witness ==
    /\ UnknownFitReturns
    /\ p_call.image.size = <<4, 2>>
    /\ p_call.options.width = Some(2)
    /\ p_call.options.height = Some(2)
    /\ p_ret.exc = "ValueError"
    /\ p_ret.made[1].size = <<4, 2>>

\* save has made its image.save call
SaveCalled == saved.state = "saved"

\* C17: with file_type 'jpeg' the image handed to the encoder is in RGB mode
\* for every input mode other than RGB (grayscale, palette, RGBA); with
\* file_type 'png' the image is encoded in its incoming mode, unconverted.
C17_EncoderMode ==
    SaveCalled =>
        /\ recipe.file_type = "jpeg" => saved.image.mode = "RGB"
        /\ recipe.file_type = "png" => saved.image = image

\* C18: given an open image file handle, the handle's read cursor is at
\* position 0 immediately before the image is decoded and at position 0
\* again after decoding, before the engine is invoked.
C18_CursorRewound ==
    handle.kind = "field" =>
        /\ gen.pc = "decode" => handle.pos = 0
        /\ gen.pc = "engine" => handle.pos = 0

Stages == {"flip", "rotate", "crop", "resize"}

\* the stage of process that calls each processor callable
StageOf ==
    [name \in {"flip_processor", "rotate_processor", "rotate_crop_processor",
               "crop_processor", "resize_processor"} |->
        CASE name = "flip_processor" -> "flip"
          [] name \in {"rotate_processor", "rotate_crop_processor"} -> "rotate"
          [] name = "crop_processor" -> "crop"
          [] name = "resize_processor" -> "resize"]

\* the exceptions the step of the engine at pc can raise ("" when it can
\* complete)
StepExceptions ==
    IF pc \in Stages
    THEN {o.exc : o \in StageOutcomes(pc, recipe, image)}
    ELSE IF pc = "done"
    THEN {o.exc : o \in EngineSave(recipe, image)}
    ELSE {}

\* an invocation that raised: the error is set, the processors called are
\* the triggered ones up to the stage that raised, and the encoder ran only
\* if it is the encoder that raised
C19_Raised ==
    /\ pc = "raised" =>
          /\ error # ""
          /\ IsPrefix(calls, TriggeredCalls(recipe))
          /\ saved.state = "saved" => calls = TriggeredCalls(recipe)
    /\ pc = "returned" => error = "" /\ saved.state = "saved"
    /\ pc \in Stages \cup {"done"} => error = "" /\ saved = NotSaved

\* a step of the engine: the exception of the stage is the error the caller
\* gets, a stage that can only raise ends the invocation, nothing follows
\* an error and no stage is called twice
C19_Step ==
    /\ pc # "raised"
    /\ pc' = "raised" => error' \in StepExceptions \ {""}
    /\ StepExceptions \cap {""} = {} => pc' = "raised" /\ error' # ""
    /\ pc' = "raised" /\ pc \in Stages => saved' = NotSaved /\ image' = image
    /\ calls' = calls \/ \E name \in DOMAIN StageOf :
                            /\ calls' = Append(calls, name)
                            /\ StageOf[name] = pc
                            /\ \A i \in 1..Len(calls) : calls[i] # name

\* C19: an exception raised by a stage of an engine invocation reaches the
\* caller unchanged: no later stage and no encoder step runs, no stage is
\* retried and the invocation returns no file.
C19_ErrorsSurface == []C19_Raised /\ [][C19_Step]_vars

\* the rotate stage raised with the crop and resize stages still to come
C19_Witness ==
    /\ pc = "raised"
    /\ error = "AttributeError"
    /\ recipe.rotate = Some(-90)
    /\ recipe.crop.kind = "list"
    /\ Truthy(recipe.width)
    /\ calls = <<"flip_processor", "rotate_processor">>
    /\ saved = NotSaved

\* what the call returns or raises when it runs alone
AloneResults(call) ==
    CASE call.processor = "crop_processor" ->
            {[exc |-> o.exc, image |-> o.image] :
                o \in crop_processor(call.image, call.options)}
      [] call.processor = "rotate_processor" ->
            {[exc |-> o.exc, image |-> o.image] :
                o \in rotate_processor(call.image, call.options)}
      [] call.processor = "engine" ->
            UNION {IF o.exc # ""
                   THEN {o}
                   ELSE {[exc |-> s.exc, image |-> s.call.image] :
                            s \in EngineSave(call.options, o.image)} :
                   o \in EngineProcess(call.options, call.image)}

\* the options (or the recipe) and the input size the call must work with
OwnAttributes(call) ==
    IF call.processor = "engine"
    THEN [recipe |-> call.options]
    ELSE [options |-> Merge(ClassDefaults[call.processor], call.options),
          input_size |-> call.image.size]

\* the same attributes as found on the instance
FoundAttributes(call, self) ==
    IF call.processor = "engine"
    THEN [recipe |-> self.recipe]
    ELSE [options |-> [k \in DOMAIN call.options \cup DOMAIN ClassDefaults[call.processor]
                         |-> self.options[k]],
          input_size |-> <<self.input_width, self.input_height>>]

\* C20: every call of a processor callable or of the engine callable works
\* on an instance constructed for it: in every interleaving of two calls with
\* different images and options or recipes, a call finds on its instance its
\* own options, input size and recipe, returns what it returns when it runs
\* alone, and leaves the DEFAULTS of the classes as they were.
C20_FreshInstances ==
    /\ class_defaults = ClassDefaults
    /\ \A c \in Callers :
          /\ frames[c].pc \in {"prep", "process", "save", "returned"} =>
                /\ frames[c].self \in 1..Len(instances)
                /\ \A d \in Callers \ {c} : frames[d].self # frames[c].self
          /\ frames[c].pc \in {"process", "save"} =>
                FoundAttributes(frames[c].call, instances[frames[c].self][1])
                    = OwnAttributes(frames[c].call)
          /\ frames[c].pc = "returned" =>
                [exc |-> frames[c].exc, image |-> frames[c].image]
                    \in AloneResults(frames[c].call)

\* both calls have set up their instance and neither has processed yet; the
\* first then returns its own result
C20_Witness ==
    /\ frames[1].pc = "returned"
    /\ frames[2].pc = "process"
    /\ frames[1].self = 2
    /\ frames[2].self = 1
    /\ frames[1].call.processor = "crop_processor"
    /\ frames[1].call.image.size = <<2, 1>>
    /\ frames[2].call.image.size = <<1, 2>>
    /\ frames[1].image.size = <<1, 1>>

(***************************************************************************)
(* C21: the recipe {flip '', rotate 90, rotate_crop '', crop None, width   *)
(* 50, height 50, fit 'fit', file_type 'jpeg', quality 80} applied to a    *)
(* 200x100 RGB source calls only the rotate processor, which transposes    *)
(* the source to 100x200, and the resize processor; the final image is     *)
(* 25x50 in RGB mode and is encoded as JPEG with quality 80 under a name   *)
(* with extension '.jpg'.                                                  *)
(***************************************************************************)
ScenarioRun ==
    /\ source = SourceImage(200, 100, "RGB")
    /\ recipe.flip = "" /\ recipe.rotate = Some(90) /\ recipe.rotate_crop = ""
    /\ recipe.crop = NoCrop
    /\ recipe.width = Some(50) /\ recipe.height = Some(50) /\ recipe.fit = "fit"
    /\ recipe.file_type = "jpeg" /\ recipe.quality = Some(80)

C21_EndToEnd ==
    ScenarioRun =>
        /\ pc # "raised"
        /\ pc \in {"crop", "resize"} =>
              /\ calls = <<"rotate_processor">>
              /\ image = PilTranspose(source, "ROTATE_90")
              /\ image.size = <<100, 200>>
        /\ pc \in {"done", "returned"} =>
              /\ calls = <<"rotate_processor", "resize_processor">>
              /\ image.size = <<25, 50>>
              /\ image.mode = "RGB"
        /\ pc = "returned" =>
              /\ saved.state = "saved"
              /\ saved.image = image
              /\ saved.format = "jpeg"
              /\ saved.quality = Some(80)
              /\ saved.name = ".jpg"

C21_Witness ==
    /\ ScenarioRun
    /\ pc = "returned"
    /\ image.size = <<25, 50>>
    /\ saved.name = ".jpg"

(***************************************************************************)
(* C22: for any sequence of sequential GET requests to the lazy view for   *)
(* one MultiresImage, the pipeline is invoked and the record saved only by *)
(* a request that finds the image field empty, every request ends with a   *)
(* redirect to the URL of the stored derivative, and requests after the    *)
(* first successful one do not regenerate the derivative.                  *)
(***************************************************************************)
Ended(r) == reqs[r].pc \in {"done", "raised"}

RequestedRow == CHOOSE row \in table : row.id = Some(RequestedId)

\* the pipeline runs, and the record changes, only in a request that found
\* the image field empty
C22_OnlyWhenEmpty ==
    \A r \in Requests :
        reqs[r].ran \/ reqs[r].rec # reqs[r].loaded => reqs[r].loaded.image = NoFile

\* the derivative is generated and stored at most once
C22_NoRegeneration ==
    /\ Cardinality({r \in Requests : reqs[r].ran /\ reqs[r].exc = ""}) <= 1
    /\ Len(stored) <= 1

RedirectedToDerivative(r) ==
    /\ reqs[r].pc = "done"
    /\ reqs[r].location.kind = "storage"
    /\ reqs[r].location.file.state = "stored"
    /\ reqs[r].location.file = RequestedRow.image
    /\ stored = <<RequestedRow.image>>

\* the claim as stated: every request ends with the redirect
C22_AlwaysRedirects ==
    /\ C22_OnlyWhenEmpty
    /\ C22_NoRegeneration
    /\ \A r \in Requests : Ended(r) => RedirectedToDerivative(r)

\* a request whose process() call raised ends with that exception, with its
\* record as loaded and nothing stored for it
FailedUnchanged(r) ==
    /\ reqs[r].pc = "raised"
    /\ reqs[r].exc # ""
    /\ reqs[r].loaded.image = NoFile
    /\ reqs[r].rec = reqs[r].loaded
    /\ reqs[r].location = NoUrl

\* the claim as amended: every request ends with the redirect unless its
\* process() call raised
C22_RedirectsUnlessProcessRaises ==
    /\ C22_OnlyWhenEmpty
    /\ C22_NoRegeneration
    /\ \A r \in Requests : Ended(r) => RedirectedToDerivative(r) \/ FailedUnchanged(r)
    /\ (\A r \in Requests : reqs[r].pc # "done") /\ (\A r \in Requests : ~InFlight(r))
          => stored = <<>> /\ table \subseteq LazyRecords

C22_Witness ==
    \E r, q \in Requests :
        /\ r # q
        /\ RedirectedToDerivative(r) /\ reqs[r].ran
        /\ RedirectedToDerivative(q) /\ ~reqs[q].ran
        /\ reqs[q].location = reqs[r].location

(***************************************************************************)
(* C26: when two lazy-view requests for the same unprocessed MultiresImage *)
(* run concurrently, the pipeline is invoked at most once for that record  *)
(* and at most one derivative file is stored for it, under every           *)
(* interleaving of the requests' check of the image field and their        *)
(* process-and-save steps.  Invocations that raised are left out of the    *)
(* count, so that a retry after a failure does not count against it.       *)
(***************************************************************************)
C26_ProcessedOnce ==
    /\ Cardinality({r \in Requests : reqs[r].ran /\ reqs[r].exc = ""}) <= 1
    /\ Len(stored) <= 1

(***************************************************************************)
(* C23: get_multires_image(recipe) with try_lookup=True returns the        *)
(* MultiresImage already stored for this source and recipe whenever one    *)
(* exists and then creates or saves no record; only when none exists does  *)
(* it create one, so after any sequence of calls there is at most one      *)
(* MultiresImage per (source, recipe) pair.                                *)
(***************************************************************************)
StoredFor(rows, name, recipe_id) ==
    {row \in rows : row.source = name /\ row.recipe = Some(recipe_id)}

OnePerPair ==
    \A row, other \in table :
        row.source = other.source /\ row.recipe = other.recipe => row = other

C23_LookupReturnsStored ==
    /\ OnePerPair
    /\ lookup.calls > 0 /\ lookup.try_lookup =>
          LET before == StoredFor(lookup.before, lookup.name, lookup.recipe)
          IN  IF before # {}
              THEN /\ lookup.state = "returned"
                   /\ lookup.rec \in before
                   /\ table = lookup.before
              ELSE lookup.state = "returned" =>
                      /\ lookup.rec.source = lookup.name
                      /\ lookup.rec.recipe = Some(lookup.recipe)

(***************************************************************************)
(* C24: after a source model instance is deleted, or its multires image    *)
(* field is changed to another file and saved (on a model with dirty-field *)
(* tracking), no MultiresImage record remains whose source is the old file *)
(* and whose recipe is in the field's namespace.  The old file of a        *)
(* deleted instance is the file its field names when it is deleted.        *)
(***************************************************************************)
RecordsOf(rows, name) ==
    {row \in rows : row.source = name
                    /\ RecipeRows[row.recipe[1]].namespace = FieldNamespace}

\* the step is instance.delete()
Deleted == owner.state = "live" /\ owner'.state = "deleted"

\* the step is instance.save() with the field changed from a file
ChangeSaved ==
    /\ owner.state = "live" /\ owner'.state = "live"
    /\ owner.file # owner.original /\ owner.original # ""
    /\ owner'.original = owner.file

C24_OrphansDeleted ==
    [][/\ Deleted /\ owner.file # "" =>
             /\ RecordsOf(table', owner.file) = {}
             /\ table' = table \ RecordsOf(table, owner.file)
       /\ ChangeSaved =>
             /\ RecordsOf(table', owner.original) = {}
             /\ table' = table \ RecordsOf(table, owner.original)]_vars

\* the last get_multires_image call saved a record of the namespace; the
\* field of the instance was then changed and saved, and the record is gone
\* while records of other files are kept
C24_Witness ==
    /\ owner.state = "live"
    /\ owner.file = owner.original
    /\ lookup.state = "returned"
    /\ lookup.rec.id # None
    /\ lookup.rec.source \notin {"", owner.file}
    /\ RecipeRows[lookup.recipe].namespace = FieldNamespace
    /\ lookup.rec \notin table
    /\ table # {}

(***************************************************************************)
(* C25: when both width and height are absent (None), the resize           *)
(* operator's scaled size equals the source size and the returned image    *)
(* has the source size, for every fit mode (fit and every anchor-crop      *)
(* mode) and either upscale value.                                         *)
(***************************************************************************)
BoxAbsent == p_call.options.width = None /\ p_call.options.height = None

C25_AbsentBoxKeepsSize ==
    Returns("resize_processor") /\ BoxAbsent /\ p_call.options.fit \in FitModes =>
        /\ \A g \in get_scaled_size(ResizePrep(p_call.image, p_call.options)) :
              g.exc = "" /\ g.size = p_call.image.size
        /\ p_ret.exc = ""
        /\ p_ret.image.size = p_call.image.size
        /\ \A i \in DOMAIN p_ret.made : p_ret.made[i].size = p_call.image.size

C25_Witness ==
    /\ Returns("resize_processor")
    /\ BoxAbsent
    /\ p_call.options.fit = "bottom"
    /\ p_call.options.upscale
    /\ p_call.image.size = <<6, 5>>
    /\ p_ret.image.size = <<6, 5>>
    /\ p_ret.image.data.op = "crop"

(***************************************************************************)
(* C28: for every image size (w,h) >= 1, every target width and height     *)
(* >= 1 (also larger than the image) and every supported anchor, the box   *)
(* returned by get_crop_box lies inside the image and is non-empty:        *)
(* 0 <= x1 < x2 <= w and 0 <= y1 < y2 <= h, with x2 - x1 = min(width, w)   *)
(* and y2 - y1 = min(height, h).                                           *)
(***************************************************************************)
C28_BoxInsideImage ==
    /\ AnchorReturns
    /\ a_call.anchor \in AnchorNames
    /\ a_call.size[1] >= 1 /\ a_call.size[2] >= 1
    /\ a_call.width >= 1 /\ a_call.height >= 1
    => /\ a_ret.exc = ""
       /\ 0 <= a_ret.box[1] /\ a_ret.box[1] < a_ret.box[3]
       /\ a_ret.box[3] <= a_call.size[1]
       /\ 0 <= a_ret.box[2] /\ a_ret.box[2] < a_ret.box[4]
       /\ a_ret.box[4] <= a_call.size[2]
       /\ a_ret.box[3] - a_ret.box[1] = Min(a_call.width, a_call.size[1])
       /\ a_ret.box[4] - a_ret.box[2] = Min(a_call.height, a_call.size[2])

\* a target wider and higher than an image of odd size
C28_Witness ==
    /\ AnchorReturns
    /\ a_call = AnchorCall(<<3, 5>>, 4, 6, "center")
    /\ a_ret.box = <<0, 0, 3, 5>>

(***************************************************************************)
(* C27: in every reachable state of a MultiresImage, processed = True      *)
(* implies the image field holds a generated derivative; a process() call  *)
(* that fails, because recipe or source is missing (ValueError) or because *)
(* the pipeline raises, leaves processed, image and the stored record      *)
(* unchanged.                                                              *)
(***************************************************************************)
HoldsDerivative(rec) == rec.image.state \in {"generated", "stored"}

\* the last call was get_multires_image(async=False, try_lookup=False) and
\* the process() call it made on the image it initialized raised
ProcessFailed ==
    /\ lookup.calls > 0
    /\ ~lookup.try_lookup /\ ~lookup.async
    /\ lookup.state = "raised"
    /\ lookup.exc # "IntegrityError"

C27_ProcessedHasImage ==
    /\ \A row \in table : row.processed => row.image.state = "stored"
    /\ lookup.rec.processed => HoldsDerivative(lookup.rec)
    /\ ProcessFailed =>
          /\ lookup.rec = InitMultiresImage(lookup.name, lookup.recipe)
          /\ ~lookup.rec.processed
          /\ lookup.rec.image = NoFile
          /\ table = lookup.before
          /\ lookup.name = "" <=> lookup.exc = "ValueError"

\* a record has been processed and saved, and a later process() call, on an
\* image of a recipe the pipeline rejects, has raised
C27_Witness ==
    /\ ProcessFailed
    /\ lookup.name # ""
    /\ \E row \in table : row.processed /\ row.image.state = "stored"

====
